---- MODULE Spec2Model ----
(***************************************************************************)
(* Deep-research orchestrator of intelexia.ai                              *)
(* (src/app/api/deep-report/route.ts, lines 236-748).                      *)
(*                                                                         *)
(* A deepResearch call is named by its path in the recursion tree: the     *)
(* root call is <<>>, and the call made by branch b (the b-th SERP query   *)
(* of its parent call, itself a path) has the path of that branch.         *)
(* Branch <<1, 2>> is the second branch of the call made by branch <<1>>.  *)
(*                                                                         *)
(* One action is one turn of the event loop: the arrival of the answer of  *)
(* an external capability (language model, search, content extraction)     *)
(* together with every promise reaction it triggers, since promise         *)
(* reactions run as microtasks before the next answer is delivered.        *)
(***************************************************************************)
EXTENDS Integers, Sequences, FiniteSets, TLC

\* ---------------------------------------------------------------- bounds
MaxBreadth == 3          \* largest searchBreadth of a request
MaxDepth == 2            \* largest searchDepth of a request
MaxConcurrency == 2      \* ConcurrencyLimit ranges over 1..MaxConcurrency
MaxDeviations == 3       \* answers of the external capabilities, over a run,
                         \* that are not the nominal one (see Nominal*)
WideDeviations == 1      \* the same, for a request of breadth MaxBreadth
NumFetchers == 2         \* concurrent invocations of fetchJinaContentWithRetry
NumSearchers == 1        \* concurrent invocations of
                         \* executeDuckDuckSearchWithRetry
NumTexts == 2            \* distinct texts the language model answers with
MaxTextLen == 4          \* longest text given to retryJsonParse
MaxContentLen == 3       \* longest string value of a damaged object text
DescentBreadth == 4      \* largest searchBreadth of a deep request
DescentDepth == 4        \* largest searchDepth of a deep request
MaxResults == 6          \* most results that a search returns
MaxPageLen == 3          \* length of a short page of the search provider
MaxClickable == 2        \* results of a search that the user clicks on
MaxSearches == 2         \* searches started from the front end

\* ------------------------------------------------------ program constants
MaxSerpResults == 5      \* searchResults.results.slice(0, 5)
DefaultNumLearnings == 3 \* numLearnings = 3
ContentFetchLimit == 20  \* CONFIG.rateLimits.contentFetch
FetchMaxRetries == 2     \* const maxRetries = 2 in fetchJinaContentWithRetry
SearchMaxRetries == 3    \* const maxRetries = 3 in
                         \* executeDuckDuckSearchWithRetry
MAX_RETRIES == 2         \* const MAX_RETRIES = 2
ResultsPerPage == 30     \* const resultsPerPage = 30 (/api/search)
PageRetries == 3         \* let retries = 3 (/api/search)
MAX_SELECTIONS == 60     \* CONFIG.search.maxSelectableResults

VARIABLES
  ConcurrencyLimit,   \* const ConcurrencyLimit (1 in the source, formerly 2)
  rateLimitsEnabled,  \* CONFIG.rateLimits.enabled
  request,            \* body of the POST request
  post,               \* the POST handler: pc, learnings, visitedUrls, response
  calls,              \* live deepResearch activations, by path
  branches,           \* live branch closures handed to limit(), by path
  learned,            \* history: some processSerpResult returned a learning
  deviations,         \* history: number of non-nominal answers so far
  outcomes,           \* history, kept when outcomes.recording: the answer
                      \* each call and branch got from each external
                      \* capability, and the order in which branches ended
  totalJinaRequests,  \* let totalJinaRequests, reset to 0 every minute
  fetches,            \* invocations of fetchJinaContentWithRetry in progress
  passedSinceReset,   \* history: invocations of fetchJinaContent that got
                      \* past the global check since the last reset
  searches,           \* invocations of executeDuckDuckSearchWithRetry in
                      \* progress
  generation,         \* an activation of generateSerpQueries
  summarization,      \* an activation of processSerpResult in a leaf branch
  parsing,            \* an activation of retryJsonParse
  pipeline,           \* one closure handed to limit(), promise by promise
  general,            \* the POST handler of /api/search, general search
  report,             \* the POST handler of /api/report
  home                \* the state of the Home component of the front end

vars == <<ConcurrencyLimit, rateLimitsEnabled, request, post, calls, branches,
          learned, deviations, outcomes, totalJinaRequests, fetches,
          passedSinceReset,
          searches, generation, summarization, parsing, pipeline,
          general, report, home>>

counterVars == <<totalJinaRequests, passedSinceReset>>
fetchVars == <<totalJinaRequests, fetches, passedSinceReset, searches>>
orchVars == <<post, calls, branches, learned, deviations, outcomes>>

config == <<ConcurrencyLimit, rateLimitsEnabled, request>>
llmVars == <<generation, summarization, parsing>>
appVars == <<general, report, home>>

\* ---------------------------------------------------------------- helpers
Min(a, b) == IF a < b THEN a ELSE b

\* Math.ceil(breadth / 2)
CeilHalfMut(b) == b
FloorHalfMut(b) == b \div 2
CeilHalf(b) == (b + 1) \div 2

\* arr.slice(0, n)
SliceMut(s, n) == s
Slice(s, n) == SubSeq(s, 1, Min(Len(s), IF n < 0 THEN 0 ELSE n))

\* [...a, ...b]: a new list, the items of a followed by those of b
SpreadMut(a, b) == b
Spread(a, b) == a \o b

\* [...new Set(arr)]: first occurrences, in order
DedupMut(s) == s
Dedup(s) ==
  LET keep(i) == \A j \in 1..(i - 1) : s[j] # s[i]
      F[i \in 0..Len(s)] ==
        IF i = 0 THEN <<>>
        ELSE IF keep(i) THEN Append(F[i - 1], s[i]) ELSE F[i - 1]
  IN F[Len(s)]

Range(s) == { s[i] : i \in DOMAIN s }

NoDuplicates(s) == \A i, j \in 1..Len(s) : s[i] = s[j] => i = j

Parent(b) == SubSeq(b, 1, Len(b) - 1)
Last(b) == b[Len(b)]

\* f without the arguments in D
Without(f, D) == [x \in (DOMAIN f) \ D |-> f[x]]

\* ------------------------------------------------ external capabilities
\* What the search capability answers to the query of branch b: the i-th
\* query of a call finds the pages i and i+1, so that sibling branches and
\* branches of different calls find common pages.
SearchResponses(b) == { <<Last(b), Last(b) + 1>> }

\* Which fetches of a batch of n pages succeed; nominally all.
FetchOutcomes(n) == SUBSET (1..n)
NominalFetch(n) == 1..n

\* The learnings the language model distills for the query of branch b:
\* nominally one, else none or more than numLearnings with a repetition.
NominalSummary(b) == <<Last(b)>>
SummaryResponses(b) ==
  { NominalSummary(b), <<>>, <<Last(b), Last(b), Last(b) + 1, Last(b) + 2>> }

\* How many queries the language model proposes; nominally at least the
\* numQueries asked for.
QueryCounts == 0..(MaxBreadth + 2)

\* An answer that is not the nominal one uses up one deviation.
DeviationBudget ==
  IF request.searchBreadth < MaxBreadth /\ request.searchDepth <= MaxDepth
  THEN MaxDeviations ELSE WideDeviations

Deviates(nominal) ==
  /\ deviations + (IF nominal THEN 0 ELSE 1) <= DeviationBudget
  /\ deviations' = deviations + (IF nominal THEN 0 ELSE 1)

\* What is known of the answers when nothing has been recorded.
NoOutcomes(recording) ==
  [recording |-> recording, queries |-> << >>, search |-> << >>,
   fetch |-> << >>, summary |-> << >>, overtaken |-> FALSE]

\* The answer to the call or branch at path is recorded in the given field
\* of outcomes (for a query generation, the number of queries kept); ended tells that the branch at path ends with that answer,
\* by its leaf return statement or by its catch block: overtaken is set
\* when a branch of the same call, earlier in serpQueries, has not ended.
Recorded(field, path, answer, ended) ==
  outcomes' =
    IF outcomes.recording
    THEN [outcomes EXCEPT
            ![field] = (path :> answer) @@ @,
            !.overtaken =
              @ \/ (ended /\ \E x \in DOMAIN branches :
                                /\ Len(x) = Len(path)
                                /\ SubSeq(x, 1, Len(x) - 1)
                                     = SubSeq(path, 1, Len(path) - 1)
                                /\ x[Len(x)] < path[Len(path)]
                                /\ branches[x].ph \notin {"done", "rejected"})]
    ELSE outcomes

\* --------------------------------------------------------- data structures
\* type ResearchResult; failed counts the branches whose catch block ran
\* to produce it, and leafUrls holds the URLs accumulated by the leaf
\* branches that completed to produce it (history)
ResearchResult(learnings, visitedUrls, errors, failed) ==
  [learnings |-> learnings, visitedUrls |-> visitedUrls, errors |-> errors,
   failed |-> failed, leafUrls |-> {}]

\* return { learnings: allLearnings, visitedUrls: allUrls, errors: [] }
LeafResult(allLearnings, allUrls) ==
  [ResearchResult(allLearnings, allUrls, <<>>, 0)
     EXCEPT !.leafUrls = Range(allUrls)]

EmptyResult == ResearchResult(<<>>, <<>>, <<>>, 0)

\* `Failed to process query "${serpQuery.query}": ${error.message}`
ErrorMsg(b, msg) == <<b, msg>>

\* a deepResearch activation: its arguments, serpQueries.length, errors
NewCall(breadth, depth, learnings, visitedUrls) ==
  [st |-> "generating", breadth |-> breadth, depth |-> depth,
   learnings |-> learnings, visitedUrls |-> visitedUrls,
   n |-> 0, errors |-> <<>>, result |-> EmptyResult, origin |-> <<0>>]

\* const allLearnings = [...], const allUrls = [...]: the activation of the
\* call after a branch of it has built its lists; they are new lists, and
\* learnings and visitedUrls of the call are left as they were
AfterBranchMut(call, allLearnings, allUrls) ==
  [call EXCEPT !.learnings = allLearnings, !.visitedUrls = allUrls]
AfterBranch(call, allLearnings, allUrls) == call

\* a branch: ph is its position, urls the search results then the fetched
\* pages, res the value it returned, by the return statement named by via;
\* while the branch summarizes, found is limitedResults and dropped the
\* positions in it of the pages whose fetch failed (history)
NewBranch == [ph |-> "queued", urls |-> <<>>, res |-> EmptyResult,
              via |-> "none", found |-> <<>>, dropped |-> {}]

\* (await Promise.all(contentPromises)).filter(item => item !== null): the
\* pages of lr whose fetch succeeded (positions ok), in the order of lr
KeepFetchedMut(lr, ok) == lr
KeepFetched(lr, ok) ==
  LET kept == SelectSeq([i \in 1..Len(lr) |-> i], LAMBDA i : i \in ok)
  IN [i \in 1..Len(kept) |-> lr[kept[i]]]

NetworkPhase == {"searching", "fetching", "summarizing"}
Running == NetworkPhase \cup {"recursing"}
Settled == {"done", "rejected"}

BranchesOf(brs, c) == { b \in DOMAIN brs : Len(b) > 0 /\ Parent(b) = c }
ActiveCount(brs, c) ==
  Cardinality({ b \in BranchesOf(brs, c) : brs[b].ph \in Running })

\* if (newDepth > 0)
ShouldRecurseMut(newDepth) == newDepth >= 0
ShouldRecurse(newDepth) == newDepth > 0

\* p-limit: a queued function is started while activeCount < concurrency
GateOpenMut(active, concurrency) == active <= concurrency
GateOpen(active, concurrency) == active < concurrency

\* p-limit: start the queued functions of call c, oldest first, while the
\* gate of c (const limit = pLimit(ConcurrencyLimit)) has a free slot
RECURSIVE StartQueued(_, _, _)
StartQueued(brs, c, concurrency) ==
  LET queued == { b \in BranchesOf(brs, c) : brs[b].ph = "queued" } IN
    IF queued # {} /\ GateOpen(ActiveCount(brs, c), concurrency)
    THEN LET b == CHOOSE x \in queued : \A y \in queued : Last(x) <= Last(y)
         IN StartQueued([brs EXCEPT ![b].ph = "searching"], c, concurrency)
    ELSE brs

\* results.flatMap(r => r[field]) over the n branches of call c, in order
FlatMapMut(brs, c, n, field) ==
  IF n = 0 THEN <<>> ELSE brs[Append(c, n)].res[field]
RECURSIVE FlatMap(_, _, _, _)
FlatMap(brs, c, n, field) ==
  IF n = 0 THEN <<>>
  ELSE FlatMap(brs, c, n - 1, field) \o brs[Append(c, n)].res[field]

RECURSIVE SumFailed(_, _, _)
SumFailed(brs, c, n) ==
  IF n = 0 THEN 0 ELSE SumFailed(brs, c, n - 1) + brs[Append(c, n)].res.failed

\* the value deepResearch returns once Promise.all has resolved
Aggregated(call, brs, c) ==
  LET n == call.n
      finalLearnings == Dedup(FlatMap(brs, c, n, "learnings"))
      finalUrls == Dedup(FlatMap(brs, c, n, "visitedUrls"))
      allErrors == call.errors \o FlatMap(brs, c, n, "errors")
  IN [ResearchResult(finalLearnings, finalUrls, allErrors,
                     SumFailed(brs, c, n))
        EXCEPT !.leafUrls =
          UNION { brs[Append(c, i)].res.leafUrls : i \in 1..n }]

\* Branch b returns res. Its slot is handed to the next queued branch of
\* its call; when it was the last branch of the call, Promise.all resolves,
\* the call returns the aggregate and, for a nested call, the branch that
\* made the call returns that value in turn. A nested call that has
\* returned is dropped from the state together with its branches.
RECURSIVE BranchReturns(_, _, _, _, _, _)
BranchReturns(cs, brs, b, res, via, concurrency) ==
  LET c == Parent(b)
      brs1 == StartQueued([brs EXCEPT ![b] = [NewBranch EXCEPT
                                                !.ph = "done",
                                                !.res = res,
                                                !.via = via]],
                          c, concurrency)
  IN IF cs[c].st = "running"
        /\ \A x \in BranchesOf(brs1, c) : brs1[x].ph = "done"
     THEN LET result == Aggregated(cs[c], brs1, c) IN
          IF c = <<>>
          THEN [calls |-> [cs EXCEPT ![c].st = "resolved",
                                     ![c].result = result],
                branches |-> brs1]
          ELSE BranchReturns(Without(cs, {c}),
                             Without(brs1, BranchesOf(brs1, c)),
                             c, result, "call", concurrency)
     ELSE [calls |-> cs, branches |-> brs1]

\* Call c throws (origin is the call whose query generation failed). For a
\* nested call the branch that made it has returned its promise without
\* awaiting it inside the try block, so the branch promise rejects, its
\* slot is freed, Promise.all of the parent call rejects and the parent
\* call throws in turn. The other branches of the parent keep running.
RECURSIVE CallThrows(_, _, _, _, _)
CallThrows(cs, brs, c, origin, concurrency) ==
  LET cs1 == [cs EXCEPT ![c].st = "rejected", ![c].origin = origin] IN
    IF c = <<>>
    THEN [calls |-> cs1, branches |-> brs]
    ELSE LET p == Parent(c)
             brs1 == StartQueued([brs EXCEPT ![c].ph = "rejected"],
                                 p, concurrency)
         IN IF cs1[p].st = "running"
            THEN CallThrows(cs1, brs1, p, origin, concurrency)
            ELSE [calls |-> cs1, branches |-> brs1]

\* messages of the errors thrown on the way of an outbound call
GlobalJinaMsg == "Global Jina rate limit exceeded"
JinaLimitMsg == "Jina AI content fetch rate limit exceeded"
JinaFailedMsg == "Jina content fetch failed after 2 retries"
AxiosErrorMsg == "timeout of 15000ms exceeded"
SearchLimitMsg == "DuckDuckGo search rate limit exceeded"
SearchFailedMsg == "DuckDuckGo search failed after 3 retries"
\* errors of the search library: one whose message names a rate limit, one
\* whose message does not
RemoteLimitMsg == "search: rate limit reached"
RemoteErrorMsg == "DDG detected an anomaly in the request"

\* error.message.includes('rate limit'), over the messages above
IncludesRateLimitMut(msg) == TRUE
IncludesRateLimit(msg) ==
  msg \in {GlobalJinaMsg, JinaLimitMsg, SearchLimitMsg, RemoteLimitMsg}

\* while (retries < maxRetries)
RetriesLeftMut(retries, maxRetries) == retries <= maxRetries
RetriesLeft(retries, maxRetries) == retries < maxRetries

\* throw new Error(`... failed after ${maxRetries} retries`): the error a
\* wrapper throws after its loop, last being the error caught last
ExhaustedErrorMut(last, msg) == last
ExhaustedError(last, msg) == msg

\* an invocation of fetchJinaContentWithRetry: pc is its position, retries
\* the local counter; attempts, backoffs and refused (the global check
\* threw) are history of the current or last invocation, steps the checks
\* and requests of its current or last call of fetchJinaContent in their
\* order, lastError the error caught last, outcome and thrown its end
IdleFetch == [pc |-> "idle", retries |-> 0, attempts |-> 0, backoffs |-> 0,
              refused |-> FALSE, steps |-> <<>>, lastError |-> "none",
              outcome |-> "none", thrown |-> "none"]

\* an invocation of executeDuckDuckSearchWithRetry: pc is its position,
\* retries the local counter; calls (of safeDuckDuckSearch), consulted (the
\* limiter was asked) and lastError are history, outcome and thrown its end
IdleSearch == [pc |-> "idle", retries |-> 0, calls |-> 0, consulted |-> FALSE,
               lastError |-> "none", outcome |-> "none", thrown |-> "none"]


\* the closure handed to limit() for one SERP query, whose call has the
\* given depth and visitedUrls: pc is its position, results what the search
\* returned, started the URLs for which fetchJinaContentWithRetry was
\* called, in the order of the calls (history), pending the positions in
\* limitedResults of the content promises not settled, fetched those of the
\* promises that gave a page, via the return statement that ended it
IdlePipeline ==
  [pc |-> "idle", depth |-> 0, visitedUrls |-> <<>>, results |-> <<>>,
   limitedResults |-> <<>>, started |-> <<>>, pending |-> {}, fetched |-> {},
   newUrls |-> <<>>, allUrls |-> <<>>, via |-> "none"]

\* what the search returns: up to MaxResults results with distinct URLs
SearchResultLists == { [i \in 1..n |-> i] : n \in 0..MaxResults }

\* await Promise.all(contentPromises) resolves: no content promise rejects,
\* so it resolves when none is pending
AllSettledMut(pending) == TRUE
AllSettled(pending) == pending = {}

\* if (totalJinaRequests >= CONFIG.rateLimits.contentFetch) throw
GlobalExhaustedMut(total) == total > ContentFetchLimit
GlobalExhausted(total) == total >= ContentFetchLimit

\* totalJinaRequests++
IncrementedMut(total) == total
Incremented(total) == total + 1

\* ------------------------------------------- language-model text handling
\* The texts of the queries, learnings and questions of an answer.
Texts == 1..NumTexts

\* What `response.match(...)` and JSON.parse make of the text the language
\* model answers with: no brace-delimited object in it ("noJson"), an
\* object text that JSON.parse rejects ("badJson"), or the parsed object,
\* each property of which is missing, not an array ("notArray") or an
\* array of at most n texts. For a rejected text the properties are those
\* of the object that the text, correctly written, stands for.
ArraysUpTo(n) == UNION { [1..k -> Texts] : k \in 0..n }
PropertyValues(n) ==
  { [is |-> "missing", items |-> <<>>], [is |-> "notArray", items |-> <<>>] }
    \cup { [is |-> "array", items |-> a] : a \in ArraysUpTo(n) }
\* !parsed.p || !Array.isArray(parsed.p) is false
IsArray(v) == v.is = "array"

\* an activation of generateSerpQueries({query, numQueries, learnings}):
\* llmCalls counts the calls of generateContent, parser is the function
\* that was given the extracted text, value is what it returned and thrown
\* the message of the error it threw
IdleGeneration == [pc |-> "idle", numQueries |-> 0, llmCalls |-> 0,
                   response |-> [kind |-> "none",
                                 queries |-> [is |-> "missing",
                                              items |-> <<>>]],
                   parser |-> "none",
                   outcome |-> "none", value |-> <<>>, thrown |-> "none"]

QueryResponses ==
  LET none == [is |-> "missing", items |-> <<>>] IN
  { [kind |-> "noJson", queries |-> none] }
    \cup { [kind |-> k, queries |-> q] :
             k \in {"badJson", "object"},
             q \in PropertyValues(MaxBreadth + 1) }

\* const parsed = JSON.parse(jsonStr): the function given the extracted text
ParsedBy(response) ==
  IF response.kind = "noJson" THEN "none" ELSE "JSON.parse"

\* generateSerpQueries from the answer of the language model on: the try
\* block, whose every error becomes 'Failed to generate search queries'
GenerateSerpQueries(response, numQueries) ==
  IF response.kind = "object" /\ IsArray(response.queries)
  THEN [outcome |-> "returned",
        value |-> Slice(response.queries.items, numQueries),
        thrown |-> "none"]
  ELSE [outcome |-> "threw", value |-> <<>>,
        thrown |-> "Failed to generate search queries"]

\* an activation of processSerpResult({query, result, numFollowUpQuestions})
\* in the try block of a leaf branch of the root call: value is what it
\* returned, thrown the message of the error it threw, branch what the
\* branch returned and via the return statement that did
MissingProperty == [is |-> "missing", items |-> <<>>]
IdleSummarization ==
  [pc |-> "idle", numLearnings |-> 0, numFollowUpQuestions |-> 0,
   response |-> [kind |-> "none", learnings |-> MissingProperty,
                 followUpQuestions |-> MissingProperty],
   parser |-> "none", outcome |-> "none",
   value |-> [learnings |-> <<>>, followUpQuestions |-> <<>>],
   thrown |-> "none", branch |-> EmptyResult, via |-> "none"]

SummarizerResponses ==
  { [kind |-> "noJson", learnings |-> MissingProperty,
     followUpQuestions |-> MissingProperty] }
    \cup { [kind |-> k, learnings |-> l, followUpQuestions |-> f] :
             k \in {"badJson", "object"},
             l \in PropertyValues(DefaultNumLearnings + 1),
             f \in PropertyValues(CeilHalf(MaxBreadth) + 1) }

\* processSerpResult from the answer of the language model on: the try
\* block, whose every error becomes 'Failed to process search results'
ProcessSerpResult(response, numLearnings, numFollowUpQuestions) ==
  IF /\ response.kind = "object"
     /\ IsArray(response.learnings)
     /\ IsArray(response.followUpQuestions)
  THEN [outcome |-> "returned",
        value |-> [learnings |-> Slice(response.learnings.items, numLearnings),
                   followUpQuestions |->
                     Slice(response.followUpQuestions.items,
                           numFollowUpQuestions)],
        thrown |-> "none"]
  ELSE [outcome |-> "threw",
        value |-> [learnings |-> <<>>, followUpQuestions |-> <<>>],
        thrown |-> "Failed to process search results"]

\* ----------------------------------------------------------- retryJsonParse
\* A text is a sequence of characters. The characters of the texts given to
\* retryJsonParse, and the letter n that a repair can add.
Quote == "\""
Backslash == "\\"
Newline == "\n"
LetterN == "n"
Colon == ":"
Chars == {"{", "}", "[", "]", Quote, Backslash, ",", "1", Newline}
JsonTexts == UNION { [1..k -> Chars] : k \in 0..MaxTextLen }

\* The concatenation of the texts piece[1], ..., piece[n].
Concat(piece, n) ==
  LET F[i \in 0..n] == IF i = 0 THEN <<>> ELSE F[i - 1] \o piece[i]
  IN F[n]

\* JSON.parse: the grammar of JSON over Chars, LetterN and Colon.
\* Whitespace is the newline; a number is a run of 1; a string holds no raw
\* quote, backslash or newline, and the escapes \", \\ and \n; an array
\* holds values; an object holds members, each a string, a colon and a
\* value.
RECURSIVE SkipWs(_, _)
SkipWs(t, i) ==
  IF i <= Len(t) /\ t[i] = Newline THEN SkipWs(t, i + 1) ELSE i

RECURSIVE EndOfNumber(_, _)
EndOfNumber(t, i) ==
  IF i <= Len(t) /\ t[i] = "1" THEN EndOfNumber(t, i + 1) ELSE i

\* the position after the string whose characters start at i, or 0
RECURSIVE EndOfString(_, _)
EndOfString(t, i) ==
  CASE i > Len(t) -> 0
    [] t[i] = Quote -> i + 1
    [] t[i] = Newline -> 0
    [] t[i] = Backslash ->
         IF i + 1 <= Len(t) /\ t[i + 1] \in {Quote, Backslash, LetterN}
         THEN EndOfString(t, i + 2) ELSE 0
    [] OTHER -> EndOfString(t, i + 1)

\* the position after the value that starts at i, or 0
RECURSIVE EndOfValue(_, _)
RECURSIVE EndOfElements(_, _)
RECURSIVE EndOfMembers(_, _)
EndOfValue(t, i) ==
  CASE i > Len(t) -> 0
    [] t[i] = "1" -> EndOfNumber(t, i)
    [] t[i] = Quote -> EndOfString(t, i + 1)
    [] t[i] = "{" ->
         LET j == SkipWs(t, i + 1)
         IN IF j <= Len(t) /\ t[j] = "}" THEN j + 1 ELSE EndOfMembers(t, j)
    [] t[i] = "[" ->
         LET j == SkipWs(t, i + 1)
         IN IF j <= Len(t) /\ t[j] = "]" THEN j + 1 ELSE EndOfElements(t, j)
    [] OTHER -> 0

\* the position after the `]` that ends the elements starting at i, or 0
EndOfElements(t, i) ==
  LET v == EndOfValue(t, i)
      k == SkipWs(t, v)
  IN CASE v = 0 \/ k > Len(t) -> 0
       [] t[k] = "]" -> k + 1
       [] t[k] = "," -> EndOfElements(t, SkipWs(t, k + 1))
       [] OTHER -> 0

\* the position after the `}` that ends the members starting at i, or 0
EndOfMembers(t, i) ==
  LET s == IF i <= Len(t) /\ t[i] = Quote THEN EndOfString(t, i + 1) ELSE 0
      c == SkipWs(t, s)
      v == IF s # 0 /\ c <= Len(t) /\ t[c] = Colon
           THEN EndOfValue(t, SkipWs(t, c + 1)) ELSE 0
      k == SkipWs(t, v)
  IN CASE v = 0 \/ k > Len(t) -> 0
       [] t[k] = "}" -> k + 1
       [] t[k] = "," -> EndOfMembers(t, SkipWs(t, k + 1))
       [] OTHER -> 0

\* JSON.parse(text) does not throw
JsonValid(t) ==
  LET v == EndOfValue(t, SkipWs(t, 1))
  IN v # 0 /\ SkipWs(t, v) = Len(t) + 1

\* .replace(/\\(?!["\\/bfnrt])/g, '\\\\'): a backslash that no escape
\* character follows is doubled
FixInvalidEscapes(t) ==
  Concat([i \in 1..Len(t) |->
            IF t[i] = Backslash
               /\ ~(i < Len(t) /\ t[i + 1] \in {Quote, Backslash, LetterN})
            THEN <<Backslash, Backslash>> ELSE <<t[i]>>], Len(t))

\* .replace(/(?<!\\)"/g, '\\"'): a quote that no backslash precedes gets one
EscapeQuotes(t) ==
  Concat([i \in 1..Len(t) |->
            IF t[i] = Quote /\ ~(i > 1 /\ t[i - 1] = Backslash)
            THEN <<Backslash, Quote>> ELSE <<t[i]>>], Len(t))

\* .replace(/[\n\r]+/g, '\\n'): a run of newlines becomes backslash, n
EscapeNewlines(t) ==
  Concat([i \in 1..Len(t) |->
            CASE t[i] # Newline -> <<t[i]>>
              [] i > 1 /\ t[i - 1] = Newline -> <<>>
              [] OTHER -> <<Backslash, LetterN>>], Len(t))

\* .replace(/,\s*([\]}])/g, '$1'): a comma before a closing bracket goes
DropTrailingCommas(t) ==
  Concat([i \in 1..Len(t) |->
            IF t[i] = "," /\ i < Len(t) /\ t[i + 1] \in {"]", "}"}
            THEN <<>> ELSE <<t[i]>>], Len(t))

\* if the text does not start with { or [ it gets a {, then if it does not
\* end with ] or } it gets a }
WrapInBraces(t) ==
  LET opened == IF Len(t) > 0 /\ t[1] \in {"{", "["} THEN t ELSE <<"{">> \o t
  IN IF opened[Len(opened)] \in {"]", "}"} THEN opened
     ELSE opened \o <<"}">>

\* cleanedJson: the replacements in their order (those for tabs, the byte
\* order mark, control characters and code fences, and the final trim, find
\* none of their characters in a text over Chars), then the wrapping
CleanJson(t) ==
  WrapInBraces(
    DropTrailingCommas(EscapeNewlines(EscapeQuotes(FixInvalidEscapes(t)))))

\* The texts of an object with one member, whose string value p is made of
\* the character 1, one quote and newlines: written correctly, with the
\* quote and the newlines escaped, or damaged, with the quote unescaped,
\* the newlines raw and a comma after the member.
StringContents ==
  { p \in UNION { [1..k -> {"1", Quote, Newline}] : k \in 2..MaxContentLen } :
      /\ Cardinality({ i \in DOMAIN p : p[i] = Quote }) = 1
      /\ \E i \in DOMAIN p : p[i] = Newline }

ObjectText(p, damaged) ==
  <<"{", Quote, "1", Quote, Colon, Quote>>
    \o Concat([i \in 1..Len(p) |->
                 CASE p[i] = "1" -> <<"1">>
                   [] p[i] = Quote ->
                        IF damaged THEN <<Quote>> ELSE <<Backslash, Quote>>
                   [] OTHER ->
                        IF damaged THEN <<Newline>>
                        ELSE <<Backslash, LetterN>>], Len(p))
    \o <<Quote>> \o (IF damaged THEN <<",">> ELSE <<>>) \o <<"}">>

DamagedObjectTexts == { ObjectText(p, TRUE) : p \in StringContents }

\* if (retryCount < MAX_RETRIES)
MayRetryMut(retryCount) == retryCount <= MAX_RETRIES
MayRetry(retryCount) == retryCount < MAX_RETRIES

\* an activation chain of retryJsonParse(jsonMatch, retryCount): original is
\* the text of the first call, attempts counts the calls of JSON.parse and
\* repairs the cleanings (history), value is the text whose parse is returned
IdleParsing == [pc |-> "idle", jsonMatch |-> <<>>, retryCount |-> 0,
                original |-> <<>>, attempts |-> 0, repairs |-> 0,
                outcome |-> "none", value |-> <<>>]

\* ------------------------------------------------- /api/search, general
\* CONFIG.search.getResultsPerPage(depth)
GetResultsPerPage(depth) ==
  CASE depth = "light" -> 10
    [] depth = "medium" -> 30
    [] depth = "heavy" -> 60
    [] OTHER -> 10

\* Math.ceil(count / resultsPerPage)
PagesNeeded(count) == (count + ResultsPerPage - 1) \div ResultsPerPage

\* the URLs start, start + 1, ... of a page of len results
UrlRun(start, len) == [i \in 1..len |-> start + i - 1]

\* What the search provider may answer for a page: nothing, a few results,
\* a full page, a page that overlaps the previous one, and pages in which
\* a URL comes twice.
ProviderPages ==
  { <<>>, <<1, 1>>, <<2, 1, 2>>, UrlRun(1, MaxPageLen),
    UrlRun(1, 12), UrlRun(1, ResultsPerPage),
    UrlRun(ResultsPerPage - 1, ResultsPerPage + 3) }

\* searchResults.results.filter(result =>
\*   !allResults.some(existing => existing.url === result.url))
UniqueNewResults(results, allResults) ==
  SelectSeq(results, LAMBDA r : r \notin Range(allResults))

\* allResults.slice(0, count).sort((a, b) => a.url.localeCompare(b.url))
SortedByUrl(s) == SortSeq(s, LAMBDA a, b : a < b)

\* the handler from the general branch on: pc is its position, page and
\* retries the loop variables, value the results of the response
IdleGeneral ==
  [pc |-> "idle", searchDepth |-> "light", count |-> 0, pagesNeeded |-> 0,
   page |-> 0, retries |-> 0, allResults |-> <<>>, status |-> 0,
   value |-> <<>>]

\* ----------------------------------------------------------- /api/report
\* A string is the sequence of its pieces, a piece being the separator
\* '__' or a text without it; two texts are never adjacent.
Separator == "__"

\* platformModel = 'google-gemini-flash'
DefaultPlatformModelMut == <<"google", Separator, "gemini-flash">>
DefaultPlatformModel == <<"google-gemini-flash">>

\* platformModel.split('__')
RECURSIVE Split(_)
Split(text) ==
  IF text = <<>> THEN <<"">>
  ELSE LET rest == Split(Tail(text))
       IN IF Head(text) = Separator THEN <<"">> \o rest
          ELSE [rest EXCEPT ![1] = Head(text)]

\* array[i], undefined past the end (i counts from 0)
ItemAt(array, i) ==
  IF i + 1 <= Len(array) THEN [defined |-> TRUE, value |-> array[i + 1]]
  ELSE [defined |-> FALSE, value |-> "undefined"]

\* CONFIG.platforms: for each platform enabled, and its models with enabled
Platforms ==
  [google |-> [enabled |-> TRUE,
               models |-> ("gemini-flash" :> TRUE)
                            @@ ("gemini-flash-thinking" :> TRUE)
                            @@ ("gemini-exp" :> FALSE)],
   openai |-> [enabled |-> FALSE,
               models |-> ("gpt-4o" :> FALSE) @@ ("o1-mini" :> FALSE)
                            @@ ("o1" :> FALSE)],
   anthropic |-> [enabled |-> FALSE,
                  models |-> ("sonnet-3.5" :> FALSE)
                               @@ ("haiku-3.5" :> FALSE)],
   deepseek |-> [enabled |-> TRUE,
                 models |-> ("chat" :> TRUE) @@ ("reasoner" :> TRUE)]]

\* the cases of switch (model) that call a model
SwitchModels ==
  {"gemini-flash", "gemini-flash-thinking", "gemini-exp", "gpt-4o",
   "o1-mini", "o1", "sonnet-3.5", "haiku-3.5", "chat", "reasoner"}

\* The values of platformModel in the bodies sent to the handler.
PlatformModelTexts ==
  { <<"google", Separator, "gemini-flash">>,
    <<"google", Separator, "gemini-exp">>,
    <<"google", Separator, "chat">>,
    <<"openai", Separator, "gpt-4o">>,
    <<"deepseek", Separator, "reasoner">>,
    <<"google-gemini-flash">>,
    <<"google", Separator, "gemini-flash", Separator, "x">>,
    <<Separator, "gemini-flash">> }

\* the handler: pc is its position; given tells that the body has a
\* platformModel and platformModel is the value after the defaults;
\* modelCalled tells that a generateWith... function was called (history)
IdleReport ==
  [pc |-> "idle", given |-> FALSE, platformModel |-> <<>>, model |-> "none",
   status |-> 0, error |-> "none", modelCalled |-> FALSE]

\* ------------------------------------------------------------ Home (page)
\* the ids of the first n results of the search number epoch (ids hold
\* the timestamp of the search, so that two searches share no id)
ResultIds(epoch, n) == { <<epoch, i>> : i \in 1..n }

\* The positions of the results that the user clicks on.
ClickableIndexes == 1..MaxClickable

\* How many results a search returns: /api/search answers with at most
\* the count asked for (general) or the limit of the query (academic),
\* the deep search with every URL visited, few or more than MAX_SELECTIONS.
ResultCounts(searchType) ==
  IF searchType = "deep" THEN {0, MaxClickable, MAX_SELECTIONS + 1}
  ELSE {0, MaxClickable, MaxClickable + 1}

\* searchDepth === 'medium' ? 6 : searchDepth === 'heavy' ? 10 : 3
AutoSelectCount(searchDepth) ==
  CASE searchDepth = "medium" -> 6
    [] searchDepth = "heavy" -> 10
    [] OTHER -> 3

\* useEffect(() => { if (searchMode === 'manual') setSearchDepth('custom')
\*                   else setSearchDepth('light') }, [searchMode])
DepthEffectMut(searchMode) == "light"
DepthEffect(searchMode) == IF searchMode = "manual" THEN "custom" ELSE "light"

\* the state of Home after useState and the first render: every effect is
\* still to run (changed holds the dependencies whose effects are to run);
\* search is the handleSearch in progress with the values of its closure,
\* epoch the number of searches started
NoSearch == [active |-> FALSE, searchMode |-> "auto",
             searchDepth |-> "light", searchType |-> "general"]
InitialHome ==
  [searchMode |-> "auto", searchDepth |-> "light", searchType |-> "general",
   documentType |-> "report",
   changed |-> {"searchMode", "documentType", "searchType"},
   results |-> {}, selectedResults |-> {}, epoch |-> 0,
   search |-> NoSearch]

\* the dependencies, among deps, whose value differs between h and g
ChangedDeps(h, g, deps) == { d \in deps : h[d] # g[d] }

\* ------------------------------------------------------------------- Init
Init ==
  /\ ConcurrencyLimit \in 1..MaxConcurrency
  /\ rateLimitsEnabled \in BOOLEAN
  /\ request \in [hasQuery : BOOLEAN, searchBreadth : 1..MaxBreadth,
                  searchDepth : 1..MaxDepth]
  /\ post = [pc |-> "start", status |-> 0, learnings |-> <<>>,
             visitedUrls |-> <<>>, body |-> EmptyResult, learned |-> FALSE]
  /\ calls = << >>
  /\ branches = << >>
  /\ learned = FALSE
  /\ deviations = 0
  /\ outcomes = NoOutcomes(FALSE)
  /\ totalJinaRequests = 0
  /\ fetches = [w \in 1..NumFetchers |-> IdleFetch]
  /\ passedSinceReset = 0
  /\ searches = [s \in 1..NumSearchers |-> IdleSearch]
  /\ pipeline = IdlePipeline
  /\ general = IdleGeneral
  /\ report = IdleReport
  /\ home = InitialHome
  /\ generation = IdleGeneration
  /\ summarization = IdleSummarization
  /\ parsing = IdleParsing

\* ----------------------------------------------------------- POST handler
\* if (!query) return 400
PostMissingQuery ==
  /\ post.pc = "start"
  /\ ~request.hasQuery
  /\ post' = [post EXCEPT !.pc = "done", !.status = 400]
  /\ UNCHANGED <<config, appVars, pipeline, llmVars, calls, branches, learned, deviations,
                 outcomes, fetchVars>>

\* searchRatelimit.limit(query) refuses: return 429
PostRateLimited ==
  /\ post.pc = "start"
  /\ request.hasQuery
  /\ rateLimitsEnabled
  /\ post' = [post EXCEPT !.pc = "done", !.status = 429]
  /\ UNCHANGED <<config, appVars, pipeline, llmVars, calls, branches, learned, deviations,
                 outcomes, fetchVars>>

\* await deepResearch({ query, depth: searchDepth, breadth: searchBreadth })
PostStartResearch ==
  /\ post.pc = "start"
  /\ request.hasQuery
  /\ post' = [post EXCEPT !.pc = "research"]
  /\ calls' = (<<>> :> NewCall(request.searchBreadth, request.searchDepth,
                               <<>>, <<>>))
  /\ UNCHANGED <<config, appVars, pipeline, llmVars, branches, learned, deviations, outcomes,
                 fetchVars>>

\* deepResearch returned: learnings and visitedUrls are assigned, 200
PostRespond ==
  /\ post.pc = "research"
  /\ calls[<<>>].st = "resolved"
  /\ post' = [pc |-> "done", status |-> 200,
              learnings |-> calls[<<>>].result.learnings,
              visitedUrls |-> calls[<<>>].result.visitedUrls,
              body |-> calls[<<>>].result, learned |-> learned]
  /\ UNCHANGED <<config, appVars, pipeline, llmVars, calls, branches, learned, deviations,
                 outcomes, fetchVars>>

\* if (errorLearnings.length > 0)
HasPartialResultsMut(errorLearnings) == Len(errorLearnings) >= 0
HasPartialResults(errorLearnings) == Len(errorLearnings) > 0

\* deepResearch threw: the inner catch block
PostCatch ==
  /\ post.pc = "research"
  /\ calls[<<>>].st = "rejected"
  /\ post' = IF HasPartialResults(post.learnings)
             THEN [post EXCEPT !.pc = "done", !.status = 200,
                     !.learned = learned,
                     !.body = ResearchResult(post.learnings, post.visitedUrls,
                                             <<"deep search error">>, 0)]
             ELSE [post EXCEPT !.pc = "done", !.status = 500,
                     !.learned = learned]
  /\ UNCHANGED <<config, appVars, pipeline, llmVars, calls, branches, learned, deviations,
                 outcomes, fetchVars>>

\* ------------------------------------------------------------ deepResearch
\* generateSerpQueries returned k queries, cut to numQueries = breadth;
\* every query is handed to limit(), which starts the first ones
GenerateQueries(c, k) ==
  /\ calls[c].st = "generating"
  /\ Deviates(k >= calls[c].breadth)
  /\ Recorded("queries", c, Len(Slice([i \in 1..k |-> i], calls[c].breadth)),
              FALSE)
  /\ LET n == Len(Slice([i \in 1..k |-> i], calls[c].breadth))
         cs == [calls EXCEPT ![c].st = "running", ![c].n = n]
         brs == [b \in { Append(c, i) : i \in 1..n } |-> NewBranch] @@ branches
     IN IF n > 0
        THEN /\ calls' = cs
             /\ branches' = StartQueued(brs, c, ConcurrencyLimit)
        ELSE \* Promise.all([]) resolves: the call returns empty lists
             LET result == Aggregated(cs[c], brs, c) IN
             IF c = <<>>
             THEN /\ calls' = [cs EXCEPT ![c].st = "resolved",
                                         ![c].result = result]
                  /\ branches' = brs
             ELSE LET S == BranchReturns(Without(cs, {c}), brs, c, result,
                                         "call", ConcurrencyLimit)
                  IN /\ calls' = S.calls
                     /\ branches' = S.branches
  /\ UNCHANGED <<config, appVars, pipeline, llmVars, post, learned, fetchVars>>

\* generateSerpQueries threw:
\* throw new Error('Failed to generate initial search queries')
GenerateFails(c) ==
  /\ calls[c].st = "generating"
  /\ Deviates(FALSE)
  /\ Recorded("queries", c, -1, FALSE)
  /\ LET S == CallThrows(calls, branches, c, c, ConcurrencyLimit) IN
       /\ calls' = S.calls
       /\ branches' = S.branches
  /\ UNCHANGED <<config, appVars, pipeline, llmVars, post, learned, fetchVars>>

\* the catch block of a branch: errors.push(errorMsg) and
\* return { learnings: [], visitedUrls: [], errors: [errorMsg] }
BranchCatch(b, msg) ==
  LET cs == [calls EXCEPT ![Parent(b)].errors = Append(@, ErrorMsg(b, msg))]
      S == BranchReturns(cs, branches, b,
                         ResearchResult(<<>>, <<>>, <<ErrorMsg(b, msg)>>, 1),
                         "catch", ConcurrencyLimit)
  IN /\ calls' = S.calls
     /\ branches' = S.branches

\* executeDuckDuckSearchWithRetry returned; the first 5 results are kept
SearchReturns(b, r) ==
  /\ branches[b].ph = "searching"
  /\ Deviates(TRUE)
  /\ Recorded("search", b, [ok |-> TRUE, results |-> r], FALSE)
  /\ branches' = [branches EXCEPT ![b].ph = "fetching",
                                  ![b].urls = Slice(r, MaxSerpResults),
                                  ![b].found = Slice(r, MaxSerpResults)]
  /\ UNCHANGED <<config, appVars, pipeline, llmVars, post, calls, learned, fetchVars>>

\* executeDuckDuckSearchWithRetry threw
SearchFails(b) ==
  /\ branches[b].ph = "searching"
  /\ Deviates(FALSE)
  /\ Recorded("search", b, [ok |-> FALSE, results |-> <<>>], TRUE)
  /\ BranchCatch(b, "search failed")
  /\ UNCHANGED <<config, appVars, pipeline, llmVars, post, learned, fetchVars>>

\* Promise.all(contentPromises) settled: the fetches of the results at the
\* positions in ok succeeded, the others were skipped (null, filtered out)
FetchSettles(b, ok) ==
  /\ branches[b].ph = "fetching"
  /\ ok \subseteq 1..Len(branches[b].urls)
  /\ Deviates(ok = NominalFetch(Len(branches[b].urls)))
  /\ Recorded("fetch", b, ok, FALSE)
  /\ LET lr == branches[b].urls
     IN branches' = [branches EXCEPT
          ![b].ph = "summarizing",
          ![b].urls = KeepFetched(lr, ok),
          ![b].dropped = (1..Len(lr)) \ ok]
  /\ UNCHANGED <<config, appVars, pipeline, llmVars, post, calls, learned, fetchVars>>

\* processSerpResult returned the learnings ls (cut to numLearnings)
Summarized(b, ls) ==
  /\ branches[b].ph = "summarizing"
  /\ Deviates(ls = NominalSummary(b))
  /\ Recorded("summary", b, [ok |-> TRUE, learnings |-> ls],
              ~ShouldRecurse(calls[Parent(b)].depth - 1))
  /\ LET c == Parent(b)
         newUrls == branches[b].urls
         newBreadth == CeilHalf(calls[c].breadth)
         newDepth == calls[c].depth - 1
         newLearnings == Slice(ls, DefaultNumLearnings)
         allLearnings == Spread(calls[c].learnings, newLearnings)
         allUrls == Spread(calls[c].visitedUrls, newUrls)
         cs == [calls EXCEPT ![c] = AfterBranch(@, allLearnings, allUrls)]
     IN /\ learned' = (learned \/ newLearnings # <<>>)
        /\ IF ShouldRecurse(newDepth)
           THEN /\ calls' = (b :> NewCall(newBreadth, newDepth,
                                          allLearnings, allUrls)) @@ cs
                /\ branches' = [branches EXCEPT ![b].ph = "recursing",
                                                ![b].urls = <<>>,
                                                ![b].found = <<>>,
                                                ![b].dropped = {}]
           ELSE LET S == BranchReturns(cs, branches, b,
                           LeafResult(allLearnings, allUrls),
                           "leaf", ConcurrencyLimit)
                IN /\ calls' = S.calls
                   /\ branches' = S.branches
  /\ UNCHANGED <<config, appVars, pipeline, llmVars, post, fetchVars>>

\* processSerpResult threw
SummarizeFails(b) ==
  /\ branches[b].ph = "summarizing"
  /\ Deviates(FALSE)
  /\ Recorded("summary", b, [ok |-> FALSE, learnings |-> <<>>], TRUE)
  /\ BranchCatch(b, "Failed to process search results")
  /\ UNCHANGED <<config, appVars, pipeline, llmVars, post, learned, fetchVars>>

Next ==
  \/ PostMissingQuery
  \/ PostRateLimited
  \/ PostStartResearch
  \/ PostRespond
  \/ PostCatch
  \/ \E c \in DOMAIN calls : \E k \in QueryCounts : GenerateQueries(c, k)
  \/ \E c \in DOMAIN calls : GenerateFails(c)
  \/ \E b \in DOMAIN branches : \E r \in SearchResponses(b) : SearchReturns(b, r)
  \/ \E b \in DOMAIN branches : SearchFails(b)
  \/ \E b \in DOMAIN branches :
       \E ok \in FetchOutcomes(Len(branches[b].urls)) : FetchSettles(b, ok)
  \/ \E b \in DOMAIN branches : \E ls \in SummaryResponses(b) : Summarized(b, ls)
  \/ \E b \in DOMAIN branches : SummarizeFails(b)

Spec == Init /\ [][Next]_vars

\* Any request, the answers of the external capabilities being recorded.
OrderInit ==
  /\ ConcurrencyLimit \in 1..MaxConcurrency
  /\ rateLimitsEnabled \in BOOLEAN
  /\ request \in [hasQuery : BOOLEAN, searchBreadth : 1..MaxBreadth,
                  searchDepth : 1..MaxDepth]
  /\ post = [pc |-> "start", status |-> 0, learnings |-> <<>>,
             visitedUrls |-> <<>>, body |-> EmptyResult, learned |-> FALSE]
  /\ calls = << >>
  /\ branches = << >>
  /\ learned = FALSE
  /\ deviations = 0
  /\ outcomes = NoOutcomes(TRUE)
  /\ totalJinaRequests = 0
  /\ fetches = [w \in 1..NumFetchers |-> IdleFetch]
  /\ passedSinceReset = 0
  /\ searches = [s \in 1..NumSearchers |-> IdleSearch]
  /\ pipeline = IdlePipeline
  /\ general = IdleGeneral
  /\ report = IdleReport
  /\ home = InitialHome
  /\ generation = IdleGeneration
  /\ summarization = IdleSummarization
  /\ parsing = IdleParsing

OrderSpec == OrderInit /\ [][Next]_vars

\* The scenario of a request with breadth 4 and depth 2.
ScenarioInit ==
  /\ ConcurrencyLimit \in 1..MaxConcurrency
  /\ rateLimitsEnabled \in BOOLEAN
  /\ request \in [hasQuery : BOOLEAN, searchBreadth : {4}, searchDepth : {2}]
  /\ post = [pc |-> "start", status |-> 0, learnings |-> <<>>,
             visitedUrls |-> <<>>, body |-> EmptyResult, learned |-> FALSE]
  /\ calls = << >>
  /\ branches = << >>
  /\ learned = FALSE
  /\ deviations = 0
  /\ outcomes = NoOutcomes(FALSE)
  /\ totalJinaRequests = 0
  /\ fetches = [w \in 1..NumFetchers |-> IdleFetch]
  /\ passedSinceReset = 0
  /\ searches = [s \in 1..NumSearchers |-> IdleSearch]
  /\ pipeline = IdlePipeline
  /\ general = IdleGeneral
  /\ report = IdleReport
  /\ home = InitialHome
  /\ generation = IdleGeneration
  /\ summarization = IdleSummarization
  /\ parsing = IdleParsing

ScenarioSpec == ScenarioInit /\ [][Next]_vars

\* A deep request or one of depth 0, its branches being run one at a time
\* and the answers of the external capabilities being recorded.
DescentInit ==
  /\ ConcurrencyLimit = 1
  /\ rateLimitsEnabled = TRUE
  /\ request \in [hasQuery : BOOLEAN, searchBreadth : 1..DescentBreadth,
                  searchDepth : 0..DescentDepth]
  /\ post = [pc |-> "start", status |-> 0, learnings |-> <<>>,
             visitedUrls |-> <<>>, body |-> EmptyResult, learned |-> FALSE]
  /\ calls = << >>
  /\ branches = << >>
  /\ learned = FALSE
  /\ deviations = 0
  /\ outcomes = NoOutcomes(TRUE)
  /\ totalJinaRequests = 0
  /\ fetches = [w \in 1..NumFetchers |-> IdleFetch]
  /\ passedSinceReset = 0
  /\ searches = [s \in 1..NumSearchers |-> IdleSearch]
  /\ pipeline = IdlePipeline
  /\ general = IdleGeneral
  /\ report = IdleReport
  /\ home = InitialHome
  /\ generation = IdleGeneration
  /\ summarization = IdleSummarization
  /\ parsing = IdleParsing

DescentSpec == DescentInit /\ [][Next]_vars

\* ------------------------------------------- content fetch and its counter
FetchInit ==
  /\ ConcurrencyLimit = 1
  /\ rateLimitsEnabled \in BOOLEAN
  /\ request = [hasQuery |-> TRUE, searchBreadth |-> 1, searchDepth |-> 1]
  /\ post = [pc |-> "start", status |-> 0, learnings |-> <<>>,
             visitedUrls |-> <<>>, body |-> EmptyResult, learned |-> FALSE]
  /\ calls = << >>
  /\ branches = << >>
  /\ learned = FALSE
  /\ deviations = 0
  /\ outcomes = NoOutcomes(FALSE)
  /\ totalJinaRequests = 0
  /\ fetches = [w \in 1..NumFetchers |-> IdleFetch]
  /\ passedSinceReset = 0
  /\ searches = [s \in 1..NumSearchers |-> IdleSearch]
  /\ pipeline = IdlePipeline
  /\ general = IdleGeneral
  /\ report = IdleReport
  /\ home = InitialHome
  /\ generation = IdleGeneration
  /\ summarization = IdleSummarization
  /\ parsing = IdleParsing

\* fetchJinaContent up to its first await, called by invocation w in the
\* loop of fetchJinaContentWithRetry: the global check and the increment,
\* or the throw that the catch block of the loop classifies by its message
\* ('Global Jina rate limit exceeded' includes 'rate limit': wait and retry)
CallFetchJinaContent(w, retries) ==
  IF GlobalExhausted(totalJinaRequests)
  THEN /\ fetches' = [fetches EXCEPT ![w].pc = "backoff",
                                     ![w].retries = retries,
                                     ![w].attempts = @ + 1,
                                     ![w].backoffs = @ + 1,
                                     ![w].refused = TRUE,
                                     ![w].steps = <<"global">>,
                                     ![w].lastError = GlobalJinaMsg]
       /\ UNCHANGED <<totalJinaRequests, passedSinceReset>>
  ELSE /\ totalJinaRequests' = Incremented(totalJinaRequests)
       /\ passedSinceReset' = passedSinceReset + 1
       /\ fetches' = [fetches EXCEPT
            ![w].pc = IF rateLimitsEnabled THEN "limiter" ELSE "network",
            ![w].retries = retries,
            ![w].attempts = @ + 1,
            ![w].steps = <<"global">>]

\* fetchJinaContentWithRetry(url) is called: the initial delay starts
FetchInvoke(w) ==
  /\ fetches[w].pc = "idle"
  /\ fetches' = [fetches EXCEPT ![w] = [IdleFetch EXCEPT !.pc = "delay"]]
  /\ UNCHANGED <<config, appVars, pipeline, llmVars, orchVars, counterVars, searches>>

\* the initial delay is over: first turn of the loop
FetchDelayElapsed(w) ==
  /\ fetches[w].pc = "delay"
  /\ CallFetchJinaContent(w, 0)
  /\ UNCHANGED <<config, appVars, pipeline, llmVars, orchVars, searches>>

\* fetchContentRatelimit.limit(url) answered
FetchLimiterAnswers(w, success) ==
  /\ fetches[w].pc = "limiter"
  /\ fetches' = IF success
                THEN [fetches EXCEPT ![w].pc = "network",
                                     ![w].steps = Append(@, "limiter")]
                ELSE [fetches EXCEPT ![w].pc = "backoff",
                                     ![w].backoffs = @ + 1,
                                     ![w].steps = Append(@, "limiter"),
                                     ![w].lastError = JinaLimitMsg]
  /\ UNCHANGED <<config, appVars, pipeline, llmVars, orchVars, counterVars, searches>>

\* axios.get answered: the text, a 429 (rethrown as a rate limit error,
\* retried) or another error (rethrown by the loop)
FetchNetworkAnswers(w, answer) ==
  /\ fetches[w].pc = "network"
  /\ fetches' =
       CASE answer = "text" ->
              [fetches EXCEPT ![w].pc = "idle", ![w].outcome = "returned",
                              ![w].steps = Append(@, "network")]
         [] answer = "429" ->
              [fetches EXCEPT ![w].pc = "backoff", ![w].backoffs = @ + 1,
                              ![w].steps = Append(@, "network"),
                              ![w].lastError = JinaLimitMsg]
         [] OTHER ->
              [fetches EXCEPT ![w].pc = "idle", ![w].outcome = "threw",
                              ![w].steps = Append(@, "network"),
                              ![w].lastError = AxiosErrorMsg,
                              ![w].thrown = AxiosErrorMsg]
  /\ UNCHANGED <<config, appVars, pipeline, llmVars, orchVars, counterVars, searches>>

\* the retry delay is over: retries++, then the next turn of the loop or
\* throw new Error(`Jina content fetch failed after ${maxRetries} retries`)
FetchBackoffElapsed(w) ==
  /\ fetches[w].pc = "backoff"
  /\ IF RetriesLeft(fetches[w].retries + 1, FetchMaxRetries)
     THEN CallFetchJinaContent(w, fetches[w].retries + 1)
     ELSE /\ fetches' = [fetches EXCEPT
               ![w].pc = "idle",
               ![w].retries = @ + 1,
               ![w].outcome = "threw",
               ![w].thrown = ExhaustedError(fetches[w].lastError,
                                            JinaFailedMsg)]
          /\ UNCHANGED <<totalJinaRequests, passedSinceReset>>
  /\ UNCHANGED <<config, appVars, pipeline, llmVars, orchVars, searches>>

\* setInterval(() => { totalJinaRequests = 0 }, 60000)
ResetCounter ==
  /\ totalJinaRequests' = 0
  /\ passedSinceReset' = 0
  /\ UNCHANGED <<config, appVars, pipeline, llmVars, orchVars, fetches, searches>>

\* ------------------------------------------------- search and its retries
\* safeDuckDuckSearch up to its first await, called by invocation s in the
\* loop of executeDuckDuckSearchWithRetry: the limiter is asked only when
\* CONFIG.rateLimits.enabled, else the pacing delay starts
CallSafeDuckDuckSearchMut(s, rec, retries) ==
  searches' = [searches EXCEPT ![s] =
    [rec EXCEPT !.pc = IF rateLimitsEnabled THEN "limiter"
                       ELSE IF retries = 0 THEN "pacing" ELSE "network",
                !.retries = retries,
                !.calls = @ + 1,
                !.consulted = @ \/ rateLimitsEnabled]]
CallSafeDuckDuckSearch(s, rec, retries) ==
  searches' = [searches EXCEPT ![s] =
    [rec EXCEPT !.pc = IF rateLimitsEnabled THEN "limiter" ELSE "pacing",
                !.retries = retries,
                !.calls = @ + 1,
                !.consulted = @ \/ rateLimitsEnabled]]

\* the catch block of the loop of executeDuckDuckSearchWithRetry
CatchSearchError(s, msg) ==
  searches' = IF IncludesRateLimit(msg)
              THEN [searches EXCEPT ![s].pc = "backoff",
                                    ![s].lastError = msg]
              ELSE [searches EXCEPT ![s].pc = "idle",
                                    ![s].lastError = msg,
                                    ![s].outcome = "threw",
                                    ![s].thrown = msg]

\* executeDuckDuckSearchWithRetry(query) is called: first turn of the loop
SearchInvoke(s) ==
  /\ searches[s].pc = "idle"
  /\ CallSafeDuckDuckSearch(s, IdleSearch, 0)
  /\ UNCHANGED <<config, appVars, pipeline, llmVars, orchVars, counterVars, fetches>>

\* searchRatelimit.limit(query) answered
SearchLimiterAnswers(s, success) ==
  /\ searches[s].pc = "limiter"
  /\ IF success
     THEN searches' = [searches EXCEPT ![s].pc = "pacing"]
     ELSE CatchSearchError(s, SearchLimitMsg)
  /\ UNCHANGED <<config, appVars, pipeline, llmVars, orchVars, counterVars, fetches>>

\* the pacing delay of safeDuckDuckSearch is over: search(query, ...)
SearchPacingElapsed(s) ==
  /\ searches[s].pc = "pacing"
  /\ searches' = [searches EXCEPT ![s].pc = "network"]
  /\ UNCHANGED <<config, appVars, pipeline, llmVars, orchVars, counterVars, fetches>>

\* search(query, ...) answered: the results, or an error with message answer
SearchNetworkAnswers(s, answer) ==
  /\ searches[s].pc = "network"
  /\ IF answer = "results"
     THEN searches' = [searches EXCEPT ![s].pc = "idle",
                                       ![s].outcome = "returned"]
     ELSE CatchSearchError(s, answer)
  /\ UNCHANGED <<config, appVars, pipeline, llmVars, orchVars, counterVars, fetches>>

\* the retry delay is over: retries++, then the next turn of the loop or
\* throw new Error(`DuckDuckGo search failed after ${maxRetries} retries`)
SearchBackoffElapsed(s) ==
  /\ searches[s].pc = "backoff"
  /\ IF RetriesLeft(searches[s].retries + 1, SearchMaxRetries)
     THEN CallSafeDuckDuckSearch(s, searches[s], searches[s].retries + 1)
     ELSE searches' = [searches EXCEPT
            ![s].pc = "idle",
            ![s].retries = @ + 1,
            ![s].outcome = "threw",
            ![s].thrown = ExhaustedError(searches[s].lastError,
                                         SearchFailedMsg)]
  /\ UNCHANGED <<config, appVars, pipeline, llmVars, orchVars, counterVars, fetches>>

FetchNext ==
  \/ \E s \in 1..NumSearchers : SearchInvoke(s)
  \/ \E s \in 1..NumSearchers : \E success \in BOOLEAN :
       SearchLimiterAnswers(s, success)
  \/ \E s \in 1..NumSearchers : SearchPacingElapsed(s)
  \/ \E s \in 1..NumSearchers :
       \E answer \in {"results", RemoteLimitMsg, RemoteErrorMsg} :
         SearchNetworkAnswers(s, answer)
  \/ \E s \in 1..NumSearchers : SearchBackoffElapsed(s)
  \/ \E w \in 1..NumFetchers : FetchInvoke(w)
  \/ \E w \in 1..NumFetchers : FetchDelayElapsed(w)
  \/ \E w \in 1..NumFetchers : \E success \in BOOLEAN : FetchLimiterAnswers(w, success)
  \/ \E w \in 1..NumFetchers :
       \E answer \in {"text", "429", "error"} : FetchNetworkAnswers(w, answer)
  \/ \E w \in 1..NumFetchers : FetchBackoffElapsed(w)
  \/ ResetCounter

FetchSpec == FetchInit /\ [][FetchNext]_vars

\* ------------------------------------------------- generateSerpQueries
\* no request, no outbound call
QuietInit ==
  /\ ConcurrencyLimit = 1
  /\ rateLimitsEnabled = FALSE
  /\ request = [hasQuery |-> TRUE, searchBreadth |-> 1, searchDepth |-> 1]
  /\ post = [pc |-> "start", status |-> 0, learnings |-> <<>>,
             visitedUrls |-> <<>>, body |-> EmptyResult, learned |-> FALSE]
  /\ calls = << >>
  /\ branches = << >>
  /\ learned = FALSE
  /\ deviations = 0
  /\ outcomes = NoOutcomes(FALSE)
  /\ totalJinaRequests = 0
  /\ fetches = [w \in 1..NumFetchers |-> IdleFetch]
  /\ passedSinceReset = 0
  /\ searches = [s \in 1..NumSearchers |-> IdleSearch]
  /\ pipeline = IdlePipeline
  /\ general = IdleGeneral
  /\ report = IdleReport
  /\ home = InitialHome

QueryInit ==
  /\ QuietInit
  /\ generation = IdleGeneration
  /\ summarization = IdleSummarization
  /\ parsing = IdleParsing

\* generateSerpQueries is called with numQueries = breadth: the prompt is
\* sent, await generateContent
CallGenerateSerpQueries(numQueries) ==
  /\ generation.pc = "idle"
  /\ generation' = [IdleGeneration EXCEPT !.pc = "asked",
                                          !.numQueries = numQueries,
                                          !.llmCalls = 1]
  /\ UNCHANGED <<config, appVars, pipeline, orchVars, fetchVars, summarization, parsing>>

\* generateContent answered with a text
QueriesAnswered(response) ==
  /\ generation.pc = "asked"
  /\ LET r == GenerateSerpQueries(response, generation.numQueries) IN
       generation' = [generation EXCEPT !.pc = "done",
                                        !.response = response,
                                        !.parser = ParsedBy(response),
                                        !.outcome = r.outcome,
                                        !.value = r.value,
                                        !.thrown = r.thrown]
  /\ UNCHANGED <<config, appVars, pipeline, orchVars, fetchVars, summarization, parsing>>

\* generateContent rejected: the error leaves generateSerpQueries
QueriesLlmFails ==
  /\ generation.pc = "asked"
  /\ generation' = [generation EXCEPT !.pc = "done",
                                      !.outcome = "threw",
                                      !.thrown = "generateContent failed"]
  /\ UNCHANGED <<config, appVars, pipeline, orchVars, fetchVars, summarization, parsing>>

QueryNext ==
  \/ \E n \in 1..MaxBreadth : CallGenerateSerpQueries(n)
  \/ \E response \in QueryResponses : QueriesAnswered(response)
  \/ QueriesLlmFails

QuerySpec == QueryInit /\ [][QueryNext]_vars

\* --------------------------------------------------- processSerpResult
\* a leaf branch of a call of the given breadth calls processSerpResult,
\* with numFollowUpQuestions: newBreadth and the default numLearnings
CallProcessSerpResult(breadth) ==
  /\ summarization.pc = "idle"
  /\ summarization' =
       [IdleSummarization EXCEPT !.pc = "asked",
                                 !.numLearnings = DefaultNumLearnings,
                                 !.numFollowUpQuestions = CeilHalf(breadth)]
  /\ UNCHANGED <<config, appVars, pipeline, orchVars, fetchVars, generation, parsing>>

\* generateContent answered with a text: processSerpResult returns and the
\* branch returns its learnings, or it throws and the catch block of the
\* branch returns the error
SummaryAnswered(response) ==
  /\ summarization.pc = "asked"
  /\ LET r == ProcessSerpResult(response, summarization.numLearnings,
                                summarization.numFollowUpQuestions)
         b == <<1>>
     IN summarization' =
          [summarization EXCEPT
             !.pc = "done",
             !.response = response,
             !.parser = ParsedBy(response),
             !.outcome = r.outcome,
             !.value = r.value,
             !.thrown = r.thrown,
             !.branch = IF r.outcome = "returned"
                        THEN LeafResult(r.value.learnings, <<>>)
                        ELSE ResearchResult(<<>>, <<>>,
                                            <<ErrorMsg(b, r.thrown)>>, 1),
             !.via = IF r.outcome = "returned" THEN "leaf" ELSE "catch"]
  /\ UNCHANGED <<config, appVars, pipeline, orchVars, fetchVars, generation, parsing>>

SummaryNext ==
  \/ \E breadth \in 1..MaxBreadth : CallProcessSerpResult(breadth)
  \/ \E response \in SummarizerResponses : SummaryAnswered(response)

SummarySpec == QueryInit /\ [][SummaryNext]_vars

\* ------------------------------------------------ one branch, in detail
\* limit() starts the closure: executeDuckDuckSearchWithRetry is called
StartBranch(depth, visitedUrls) ==
  /\ pipeline.pc = "idle"
  /\ pipeline' = [IdlePipeline EXCEPT !.pc = "searching", !.depth = depth,
                                      !.visitedUrls = visitedUrls]
  /\ UNCHANGED <<config, appVars, orchVars, fetchVars, llmVars>>

\* the closure after a content promise settled or after the batch was
\* started: once Promise.all has resolved, the null items are filtered out,
\* newUrls is computed and processSerpResult is called
AfterSettle(p) ==
  IF AllSettled(p.pending)
  THEN [p EXCEPT !.pc = "summarizing",
                 !.newUrls = KeepFetched(p.limitedResults, p.fetched)]
  ELSE p

\* the search returned: the first 5 results are kept and, for each of them
\* in turn, the async function of contentPromises runs up to the initial
\* delay of fetchJinaContentWithRetry
PipelineSearchReturns(results) ==
  /\ pipeline.pc = "searching"
  /\ LET limitedResults == Slice(results, MaxSerpResults) IN
       pipeline' = AfterSettle([pipeline EXCEPT
                      !.pc = "fetching",
                      !.results = results,
                      !.limitedResults = limitedResults,
                      !.started = limitedResults,
                      !.pending = 1..Len(limitedResults)])
  /\ UNCHANGED <<config, appVars, orchVars, fetchVars, llmVars>>

\* the catch block of the closure
PipelineCatch(fromPc) ==
  /\ pipeline.pc = fromPc
  /\ pipeline' = [pipeline EXCEPT !.pc = "returned", !.via = "catch"]
  /\ UNCHANGED <<config, appVars, orchVars, fetchVars, llmVars>>

\* fetchJinaContentWithRetry returned or threw for the result at position
\* i: the content promise resolves with the page or, by its catch block,
\* with null
ContentSettles(i, ok) ==
  /\ pipeline.pc = "fetching"
  /\ i \in pipeline.pending
  /\ pipeline' = AfterSettle([pipeline EXCEPT
                     !.pending = @ \ {i},
                     !.fetched = IF ok THEN @ \cup {i} ELSE @])
  /\ UNCHANGED <<config, appVars, orchVars, fetchVars, llmVars>>

\* processSerpResult returned: allUrls, then the call of deepResearch or
\* the leaf return statement
PipelineSummaryReturns ==
  /\ pipeline.pc = "summarizing"
  /\ LET allUrls == Spread(pipeline.visitedUrls, pipeline.newUrls) IN
       pipeline' = IF ShouldRecurse(pipeline.depth - 1)
                   THEN [pipeline EXCEPT !.pc = "recursing",
                                         !.allUrls = allUrls]
                   ELSE [pipeline EXCEPT !.pc = "returned",
                                         !.allUrls = allUrls,
                                         !.via = "leaf"]
  /\ UNCHANGED <<config, appVars, orchVars, fetchVars, llmVars>>

\* the call of deepResearch made by the closure returned or threw
PipelineCallEnds(returned) ==
  /\ pipeline.pc = "recursing"
  /\ pipeline' = IF returned
                 THEN [pipeline EXCEPT !.pc = "returned", !.via = "call"]
                 ELSE [pipeline EXCEPT !.pc = "rejected"]
  /\ UNCHANGED <<config, appVars, orchVars, fetchVars, llmVars>>

BranchNext ==
  \/ \E depth \in 1..MaxDepth : \E visitedUrls \in {<<>>, <<0>>} :
       StartBranch(depth, visitedUrls)
  \/ \E results \in SearchResultLists : PipelineSearchReturns(results)
  \/ \E fromPc \in {"searching", "summarizing"} : PipelineCatch(fromPc)
  \/ \E i \in 1..MaxSerpResults : \E ok \in BOOLEAN : ContentSettles(i, ok)
  \/ PipelineSummaryReturns
  \/ \E returned \in BOOLEAN : PipelineCallEnds(returned)

BranchSpec == QueryInit /\ [][BranchNext]_vars

\* ----------------------------------------------------------- retryJsonParse
\* retryJsonParse(text) is called
CallRetryJsonParse(text) ==
  /\ parsing.pc = "idle"
  /\ parsing' = [IdleParsing EXCEPT !.pc = "parse", !.jsonMatch = text,
                                    !.original = text]
  /\ UNCHANGED <<config, appVars, pipeline, orchVars, fetchVars, generation, summarization>>

\* try { return JSON.parse(jsonMatch) } catch: the delay before the repair,
\* or the throw once retryCount has reached MAX_RETRIES
ParseAttempt ==
  /\ parsing.pc = "parse"
  /\ parsing' =
       IF JsonValid(parsing.jsonMatch)
       THEN [parsing EXCEPT !.pc = "done", !.attempts = @ + 1,
                            !.outcome = "returned",
                            !.value = parsing.jsonMatch]
       ELSE IF MayRetry(parsing.retryCount)
       THEN [parsing EXCEPT !.pc = "delay", !.attempts = @ + 1]
       ELSE [parsing EXCEPT !.pc = "done", !.attempts = @ + 1,
                            !.outcome = "threw"]
  /\ UNCHANGED <<config, appVars, pipeline, orchVars, fetchVars, generation, summarization>>

\* the delay is over: the text is cleaned and
\* return retryJsonParse(cleanedJson, retryCount + 1)
RepairAndRetry ==
  /\ parsing.pc = "delay"
  /\ parsing' = [parsing EXCEPT !.pc = "parse",
                                !.jsonMatch = CleanJson(@),
                                !.retryCount = @ + 1,
                                !.repairs = @ + 1]
  /\ UNCHANGED <<config, appVars, pipeline, orchVars, fetchVars, generation, summarization>>

ParseNext ==
  \/ \E text \in JsonTexts \cup DamagedObjectTexts : CallRetryJsonParse(text)
  \/ ParseAttempt
  \/ RepairAndRetry

ParseSpec == QueryInit /\ [][ParseNext]_vars

\* ------------------------------------------------- /api/search, general
\* Any request for a general search, rate limiting enabled or not.
GeneralInit ==
  /\ ConcurrencyLimit = 1
  /\ rateLimitsEnabled \in BOOLEAN
  /\ request \in [hasQuery : BOOLEAN, searchBreadth : {1}, searchDepth : {1}]
  /\ post = [pc |-> "start", status |-> 0, learnings |-> <<>>,
             visitedUrls |-> <<>>, body |-> EmptyResult, learned |-> FALSE]
  /\ calls = << >>
  /\ branches = << >>
  /\ learned = FALSE
  /\ deviations = 0
  /\ outcomes = NoOutcomes(FALSE)
  /\ totalJinaRequests = 0
  /\ fetches = [w \in 1..NumFetchers |-> IdleFetch]
  /\ passedSinceReset = 0
  /\ searches = [s \in 1..NumSearchers |-> IdleSearch]
  /\ pipeline = IdlePipeline
  /\ general = IdleGeneral
  /\ report = IdleReport
  /\ home = InitialHome
  /\ generation = IdleGeneration
  /\ summarization = IdleSummarization
  /\ parsing = IdleParsing

\* if (!query) return 400
GeneralMissingQuery ==
  /\ general.pc = "idle"
  /\ ~request.hasQuery
  /\ general' = [general EXCEPT !.pc = "done", !.status = 400]
  /\ UNCHANGED <<config, orchVars, fetchVars, llmVars, pipeline, report, home>>

\* searchRatelimit.limit(query) refuses: return 429
GeneralRateLimited ==
  /\ general.pc = "idle"
  /\ request.hasQuery
  /\ rateLimitsEnabled
  /\ general' = [general EXCEPT !.pc = "done", !.status = 429]
  /\ UNCHANGED <<config, orchVars, fetchVars, llmVars, pipeline, report, home>>

\* searchType === 'general': count and pagesNeeded are computed and the
\* first turn of the loops awaits the initial delay and the first page
GeneralStart(searchDepth) ==
  /\ general.pc = "idle"
  /\ request.hasQuery
  /\ general' = [IdleGeneral EXCEPT
       !.pc = "page",
       !.searchDepth = searchDepth,
       !.count = GetResultsPerPage(searchDepth),
       !.pagesNeeded = PagesNeeded(GetResultsPerPage(searchDepth)),
       !.page = 0,
       !.retries = PageRetries]
  /\ UNCHANGED <<config, orchVars, fetchVars, llmVars, pipeline, report, home>>

\* search(query, { offset }) returned a page: its results that are not in
\* allResults are appended; then the loops go on with the next page or
\* end, and the response holds the first count results, sorted by URL
GeneralPageReturns(results) ==
  /\ general.pc = "page"
  /\ LET all == general.allResults
                  \o UniqueNewResults(results, general.allResults)
         last == \/ Len(all) >= general.count
                 \/ general.page + 1 >= general.pagesNeeded
     IN general' =
          IF last
          THEN [general EXCEPT
                  !.pc = "done",
                  !.allResults = all,
                  !.status = 200,
                  !.value = SortedByUrl(Slice(all, general.count))]
          ELSE [general EXCEPT
                  !.allResults = all,
                  !.page = @ + 1,
                  !.retries = PageRetries]
  /\ UNCHANGED <<config, orchVars, fetchVars, llmVars, pipeline, report, home>>

\* search threw: retries--, then the error is rethrown to the outer catch
\* block (500) or the page is asked again after the backoff
GeneralPageFails ==
  /\ general.pc = "page"
  /\ general' =
       IF general.retries - 1 = 0
       THEN [general EXCEPT !.pc = "done", !.retries = 0, !.status = 500]
       ELSE [general EXCEPT !.retries = @ - 1]
  /\ UNCHANGED <<config, orchVars, fetchVars, llmVars, pipeline, report, home>>

GeneralNext ==
  \/ GeneralMissingQuery
  \/ GeneralRateLimited
  \/ \E d \in {"light", "medium", "heavy"} : GeneralStart(d)
  \/ \E results \in ProviderPages : GeneralPageReturns(results)
  \/ GeneralPageFails

GeneralSpec == GeneralInit /\ [][GeneralNext]_vars

\* ----------------------------------------------------------- /api/report
\* Any request for a report, rate limiting enabled or not.
ReportInit == GeneralInit

\* const { ..., platformModel = 'google-gemini-flash', ... } = body
ReportReceive(given, text) ==
  /\ report.pc = "idle"
  /\ report' = [IdleReport EXCEPT
       !.pc = "received",
       !.given = given,
       !.platformModel = IF given THEN text ELSE DefaultPlatformModel]
  /\ UNCHANGED <<config, orchVars, fetchVars, llmVars, pipeline, general, home>>

\* reportContentRatelimit.limit('report') refuses: return 429
ReportRateLimited ==
  /\ report.pc = "received"
  /\ rateLimitsEnabled
  /\ report' = [report EXCEPT !.pc = "done", !.status = 429,
                              !.error = "Too many requests"]
  /\ UNCHANGED <<config, orchVars, fetchVars, llmVars, pipeline, general, home>>

\* the checks of the platform and of the model, then the prompt is built
\* and switch (model) calls the model or throws
ReportValidate ==
  /\ report.pc = "received"
  /\ LET platform == ItemAt(Split(report.platformModel), 0)
         model == ItemAt(Split(report.platformModel), 1)
         platformKnown == platform.value \in DOMAIN Platforms
         modelKnown ==
           /\ platformKnown
           /\ model.defined
           /\ model.value \in DOMAIN Platforms[platform.value].models
     IN report' =
          IF ~platformKnown \/ ~Platforms[platform.value].enabled
          THEN [report EXCEPT !.pc = "done", !.status = 400,
                              !.error = "platform is not enabled"]
          ELSE IF ~modelKnown
          THEN [report EXCEPT !.pc = "done", !.status = 400,
                              !.error = "model does not exist"]
          ELSE IF ~Platforms[platform.value].models[model.value]
          THEN [report EXCEPT !.pc = "done", !.status = 400,
                              !.error = "model is disabled"]
          ELSE IF model.value \notin SwitchModels
          THEN [report EXCEPT !.pc = "done", !.status = 500,
                              !.error = "Failed to generate report content"]
          ELSE [report EXCEPT !.pc = "generating", !.model = model.value,
                              !.modelCalled = TRUE]
  /\ UNCHANGED <<config, orchVars, fetchVars, llmVars, pipeline, general, home>>

\* the model answered with a text that holds a report, or with one that
\* holds no JSON or JSON that cannot be repaired, or not at all
ReportModelAnswers(answer) ==
  /\ report.pc = "generating"
  /\ report' =
       CASE answer = "report" ->
              [report EXCEPT !.pc = "done", !.status = 200]
         [] answer = "noJson" ->
              [report EXCEPT !.pc = "done", !.status = 500,
                             !.error = "Invalid report format"]
         [] answer = "badJson" ->
              [report EXCEPT !.pc = "done", !.status = 500,
                 !.error = "Failed to parse report format after retries"]
         [] OTHER ->
              [report EXCEPT !.pc = "done", !.status = 500,
                             !.error = "Failed to generate report content"]
  /\ UNCHANGED <<config, orchVars, fetchVars, llmVars, pipeline, general, home>>

ReportNext ==
  \/ \E text \in PlatformModelTexts : ReportReceive(TRUE, text)
  \/ ReportReceive(FALSE, <<>>)
  \/ ReportRateLimited
  \/ ReportValidate
  \/ \E answer \in {"report", "noJson", "badJson", "error"} :
       ReportModelAnswers(answer)

ReportSpec == ReportInit /\ [][ReportNext]_vars

\* ------------------------------------------------------------ Home (page)
HomeInit == QueryInit

\* onClick of the Source Selection buttons
ClickSearchMode(value) ==
  /\ home' =
       IF ~(value = "manual" /\ home.searchType = "deep")
       THEN [home EXCEPT
               !.searchMode = value,
               !.changed = @ \cup (IF value # home.searchMode
                                   THEN {"searchMode"} ELSE {})]
       ELSE home
  /\ UNCHANGED <<config, orchVars, fetchVars, llmVars, pipeline, general, report>>

\* onClick of the Search Depth buttons
ClickSearchDepth(value) ==
  /\ home' =
       IF \/ (home.searchMode = "auto" /\ value # "custom")
          \/ (home.searchMode = "manual" /\ value = "custom")
       THEN [home EXCEPT !.searchDepth = value]
       ELSE home
  /\ UNCHANGED <<config, orchVars, fetchVars, llmVars, pipeline, general, report>>

\* onClick of the Search Type buttons
ClickSearchType(value) ==
  /\ home' =
       IF ~(value = "deep" /\ home.documentType = "presentation")
       THEN [home EXCEPT
               !.searchType = value,
               !.changed = @ \cup (IF value # home.searchType
                                   THEN {"searchType"} ELSE {})]
       ELSE home
  /\ UNCHANGED <<config, orchVars, fetchVars, llmVars, pipeline, general, report>>

\* onChange of the Generated Output TabGroup: setDocumentType
ClickDocumentType(value) ==
  /\ home' = [home EXCEPT
       !.documentType = value,
       !.changed = @ \cup (IF value # home.documentType
                           THEN {"documentType"} ELSE {})]
  /\ UNCHANGED <<config, orchVars, fetchVars, llmVars, pipeline, general, report>>

\* after a render the effects whose dependency changed run, in the order
\* of their declaration, with the values of that render; the states they
\* set are applied together and the effects of what changed are to run
RunEffects ==
  /\ home.changed # {}
  /\ LET searchDepth == IF "searchMode" \in home.changed
                        THEN DepthEffect(home.searchMode)
                        ELSE home.searchDepth
         searchType == IF /\ "documentType" \in home.changed
                          /\ home.documentType = "presentation"
                          /\ home.searchType = "deep"
                       THEN "general" ELSE home.searchType
         searchMode == IF /\ "searchType" \in home.changed
                          /\ home.searchType = "deep"
                          /\ home.searchMode = "manual"
                       THEN "auto" ELSE home.searchMode
         after == [home EXCEPT !.searchDepth = searchDepth,
                               !.searchType = searchType,
                               !.searchMode = searchMode]
     IN home' = [after EXCEPT
          !.changed = ChangedDeps(home, after, {"searchMode", "searchType"})]
  /\ UNCHANGED <<config, orchVars, fetchVars, llmVars, pipeline, general, report>>

\* handleSearch up to await fetch: the results are cleared (there is no
\* custom URL), the selection too in auto mode, and the request is sent
\* with the searchType, searchMode and searchDepth of the render
SubmitSearch ==
  /\ ~home.search.active
  /\ home.epoch < MaxSearches
  /\ home' = [home EXCEPT
       !.results = {},
       !.selectedResults = IF home.searchMode = "auto" THEN {} ELSE @,
       !.epoch = @ + 1,
       !.search = [active |-> TRUE, searchMode |-> home.searchMode,
                   searchDepth |-> home.searchDepth,
                   searchType |-> home.searchType]]
  /\ UNCHANGED <<config, orchVars, fetchVars, llmVars, pipeline, general, report>>

\* the response has status 200 and n results: they replace the results;
\* a deep search (its response has learnings) selects them all, another
\* search in auto mode selects the first ones
SearchCompletes(n) ==
  /\ home.search.active
  /\ n \in ResultCounts(home.search.searchType)
  /\ LET newResults == ResultIds(home.epoch, n)
         deepSelected == IF home.search.searchType = "deep"
                         THEN newResults ELSE home.selectedResults
         selected ==
           IF home.search.searchMode = "auto"
              /\ home.search.searchType # "deep"
           THEN ResultIds(home.epoch,
                          Min(n, AutoSelectCount(home.search.searchDepth)))
           ELSE deepSelected
     IN home' = [home EXCEPT !.results = newResults,
                             !.selectedResults = selected,
                             !.search = NoSearch]
  /\ UNCHANGED <<config, orchVars, fetchVars, llmVars, pipeline, general, report>>

\* the response has another status, or fetch threw: setError
SearchErrors ==
  /\ home.search.active
  /\ home' = [home EXCEPT !.search = NoSearch]
  /\ UNCHANGED <<config, orchVars, fetchVars, llmVars, pipeline, general, report>>

\* handleResultSelect(resultId), from the checkbox of a listed result
HandleResultSelect(resultId) ==
  /\ resultId \in home.results
  /\ home' = [home EXCEPT !.selectedResults =
       IF resultId \in @ THEN @ \ {resultId}
       ELSE IF Cardinality(@) >= MAX_SELECTIONS THEN @
       ELSE @ \cup {resultId}]
  /\ UNCHANGED <<config, orchVars, fetchVars, llmVars, pipeline, general, report>>

\* handleRemoveResult(resultId)
HandleRemoveResult(resultId) ==
  /\ resultId \in home.results
  /\ home' = [home EXCEPT !.results = @ \ {resultId},
                          !.selectedResults = @ \ {resultId}]
  /\ UNCHANGED <<config, orchVars, fetchVars, llmVars, pipeline, general, report>>

HomeNext ==
  \/ \E v \in {"auto", "manual"} : ClickSearchMode(v)
  \/ \E v \in {"light", "medium", "heavy", "custom"} : ClickSearchDepth(v)
  \/ \E v \in {"general", "academic", "deep"} : ClickSearchType(v)
  \/ \E v \in {"report", "presentation"} : ClickDocumentType(v)
  \/ RunEffects
  \/ SubmitSearch
  \/ \E n \in 0..(MAX_SELECTIONS + 1) : SearchCompletes(n)
  \/ SearchErrors
  \/ \E i \in ClickableIndexes : HandleResultSelect(<<home.epoch, i>>)
  \/ \E i \in ClickableIndexes : HandleRemoveResult(<<home.epoch, i>>)

HomeSpec == HomeInit /\ [][HomeNext]_vars

\* ------------------------------------------------------------------ claims
RootCall == calls[<<>>]
RootReturned == <<>> \in DOMAIN calls /\ RootCall.st = "resolved"
RootThrew == <<>> \in DOMAIN calls /\ RootCall.st = "rejected"

\* C1: an error raised while a branch is processed, anywhere in its
\* recursive descent, never leaves deepResearch as an exception: a call
\* throws only when its own query generation failed. (Stated as claimed;
\* the code violates it.)
C1_BranchErrorsContained ==
  \A c \in DOMAIN calls : calls[c].st = "rejected" => calls[c].origin = c

\* C2: only a query-generation failure of the root call makes the whole
\* operation fail: a 500 answer means the root call's own generation
\* failed. (Stated as claimed; the code violates it.)
C2_OnlyRootGenerationFails ==
  (post.pc = "done" /\ post.status = 500) => RootCall.origin = <<>>

\* External calls that a deepResearch call of the given breadth and depth
\* can still make, at most: one query generation, then per branch a search,
\* a batch of fetches, a summarization and the nested call.
RECURSIVE CallBudget(_, _)
CallBudget(breadth, depth) ==
  1 + breadth * (3 + IF depth - 1 > 0
                     THEN CallBudget(CeilHalf(breadth), depth - 1) ELSE 0)

BranchBudget(b) ==
  LET call == calls[Parent(b)]
      nested == IF call.depth - 1 > 0
                THEN CallBudget(CeilHalf(call.breadth), call.depth - 1) ELSE 0
  IN CASE branches[b].ph \in {"queued", "searching"} -> 3 + nested
       [] branches[b].ph = "fetching" -> 2 + nested
       [] branches[b].ph = "summarizing" -> 1 + nested
       [] OTHER -> 0

RECURSIVE SumOver(_, _)
SumOver(f, D) ==
  IF D = {} THEN 0
  ELSE LET x == CHOOSE y \in D : TRUE IN f[x] + SumOver(f, D \ {x})

\* Steps that the request can still take, at most.
Potential ==
  (CASE post.pc = "start" ->
          2 + CallBudget(request.searchBreadth, request.searchDepth)
     [] post.pc = "research" -> 1
     [] OTHER -> 0)
  + SumOver([b \in DOMAIN branches |-> BranchBudget(b)], DOMAIN branches)
  + SumOver([c \in DOMAIN calls |->
               IF calls[c].st = "generating"
               THEN CallBudget(calls[c].breadth, calls[c].depth) ELSE 0],
            DOMAIN calls)

\* An external call of the orchestrator has not been answered yet.
PendingExternalCall ==
  \/ \E c \in DOMAIN calls : calls[c].st = "generating"
  \/ \E b \in DOMAIN branches : branches[b].ph \in NetworkPhase

\* C3: the chain of nested deepResearch calls started with depth d has at
\* most d levels, and the root call terminates when every external call
\* returns or fails: as long as the root call has neither returned nor
\* thrown, an external call is pending, and every step lowers the number
\* of steps that can still be taken.
C3_DepthBoundedAndTerminates ==
  /\ [](\A c \in DOMAIN calls : Len(c) + 1 <= request.searchDepth)
  /\ []((post.pc = "research" /\ ~RootReturned /\ ~RootThrew)
          => PendingExternalCall)
  /\ [](Potential >= 0)
  /\ [][Potential' < Potential]_vars

\* C3 witness: a call of the deepest allowed level, below the root, is
\* running its branches
C3_Witness ==
  \E c \in DOMAIN calls :
    /\ Len(c) >= 1
    /\ Len(c) + 1 = request.searchDepth
    /\ calls[c].st = "running"
    /\ calls[c].depth = 1

\* C4: the learnings and visitedUrls returned by a deepResearch call (the
\* root's result and the value of every branch that returned the result of
\* its nested call) contain no value twice.
C4_NoDuplicateValues ==
  /\ RootReturned =>
       /\ NoDuplicates(RootCall.result.learnings)
       /\ NoDuplicates(RootCall.result.visitedUrls)
  /\ \A b \in DOMAIN branches :
       branches[b].via = "call" =>
         /\ NoDuplicates(branches[b].res.learnings)
         /\ NoDuplicates(branches[b].res.visitedUrls)

\* C4 witness: the root returned although its branches, one of them through
\* a nested call, delivered the same learning and the same URL several times
C4_Witness ==
  /\ RootReturned
  /\ \E b \in BranchesOf(branches, <<>>) : branches[b].via = "call"
  /\ ~NoDuplicates(FlatMap(branches, <<>>, RootCall.n, "learnings"))
  /\ ~NoDuplicates(FlatMap(branches, <<>>, RootCall.n, "visitedUrls"))
  /\ RootCall.result.learnings # <<>>

\* C5: the errors list returned by deepResearch holds exactly one entry per
\* branch that failed. (Stated as claimed; the code violates it.)
C5_OneErrorPerFailedBranch ==
  RootReturned => Len(RootCall.result.errors) = RootCall.result.failed

\* C6: if a summarization produced at least one learning anywhere in the
\* tree, the request ends with status 200 and returns learnings. (Stated as
\* claimed; the code violates it.)
C6_LearningMeansSuccess ==
  (post.pc = "done" /\ post.status \in {200, 500} /\ post.learned) =>
    (post.status = 200 /\ post.body.learnings # <<>>)

\* C7: a deep research that ends without any learning is reported as a
\* failure, not as a success carrying empty lists. (Stated as claimed; the
\* code violates it.)
C7_EmptyResultIsFailure ==
  (post.pc = "done" /\ post.body.learnings = <<>>) => post.status # 200

\* C8 (as claimed): over the whole tree, the number of branches in their
\* search/fetch/summarize phase is at most ConcurrencyLimit.
InNetworkPhase == { b \in DOMAIN branches : branches[b].ph \in NetworkPhase }
C9_GlobalFetchBudget ==
  /\ passedSinceReset <= ContentFetchLimit
  /\ totalJinaRequests <= ContentFetchLimit

\* C9 witness: the budget is used up while two invocations are in progress,
\* one got past the check and one was refused
C9_Witness ==
  /\ totalJinaRequests = ContentFetchLimit
  /\ \E v, w \in 1..NumFetchers :
       /\ fetches[v].pc \in {"limiter", "network"}
       /\ fetches[w].refused

\* C10: a content fetch refused by the global check fails at once and is
\* not retried: one attempt, no retry delay. (Stated as claimed; the code
\* violates it.)
C10_GlobalRefusalNotRetried ==
  \A w \in 1..NumFetchers :
    fetches[w].refused => (fetches[w].attempts = 1 /\ fetches[w].backoffs = 0)

\* C11: while CONFIG.rateLimits.enabled is false no limiter is consulted and
\* no search or content fetch is refused by a rate-limit check of the
\* program, however many calls are made. (Stated as claimed; the code
\* violates it.)
C11_DisabledNeverRefuses ==
  ~rateLimitsEnabled =>
    /\ \A s \in 1..NumSearchers :
         ~searches[s].consulted /\ searches[s].lastError # SearchLimitMsg
    /\ \A w \in 1..NumFetchers :
         /\ "limiter" \notin Range(fetches[w].steps)
         /\ ~fetches[w].refused

\* the errors of a search that report a rate limit: the refusal of the
\* limiter and the rate-limit error of the search library
SearchRateLimitErrors == {SearchLimitMsg, RemoteLimitMsg}

\* C12: executeDuckDuckSearchWithRetry calls safeDuckDuckSearch at most 3
\* times; a further call is made only after an error classified as rate
\* limit, and an error that is not is thrown to the caller in the step that
\* catches it, without a further call.
C12_SearchRetryDiscipline ==
  /\ [](\A s \in 1..NumSearchers : searches[s].calls <= SearchMaxRetries)
  /\ [][\A s \in 1..NumSearchers :
         /\ (searches[s].pc # "idle" /\ searches'[s].calls # searches[s].calls)
              => /\ searches[s].pc = "backoff"
                 /\ searches[s].lastError \in SearchRateLimitErrors
         /\ (searches[s].pc \in {"limiter", "network"}
               /\ searches'[s].lastError # searches[s].lastError
               /\ searches'[s].lastError \notin SearchRateLimitErrors)
              => /\ searches'[s].pc = "idle"
                 /\ searches'[s].outcome = "threw"
                 /\ searches'[s].thrown = searches'[s].lastError
                 /\ searches'[s].calls = searches[s].calls]_vars

\* C12 witness: two rate-limit errors were retried and the error of the
\* third call, not a rate-limit error, was thrown to the caller
C12_Witness ==
  \E s \in 1..NumSearchers :
    /\ searches[s].calls = SearchMaxRetries
    /\ searches[s].retries = SearchMaxRetries - 1
    /\ searches[s].outcome = "threw"
    /\ searches[s].thrown = RemoteErrorMsg

\* the checks and the request of one call of fetchJinaContent, in the
\* order the claim gives them, the limiter being asked only when enabled
FetchStepOrders ==
  { <<>>, <<"global">>, <<"global", "limiter">>, <<"global", "network">>,
    <<"global", "limiter", "network">> }

\* C13: fetchJinaContentWithRetry calls fetchJinaContent at most 2 times for
\* its URL, and every call starts with the global counter check, before the
\* limiter is asked and before the network request.
C13_FetchAttemptsAndOrder ==
  /\ [](\A w \in 1..NumFetchers :
         /\ fetches[w].attempts <= FetchMaxRetries
         /\ fetches[w].steps \in FetchStepOrders
         /\ fetches[w].attempts = 0 <=> fetches[w].steps = <<>>
         /\ fetches[w].pc = "limiter" => fetches[w].steps = <<"global">>
         /\ fetches[w].pc = "network" =>
              fetches[w].steps \in {<<"global">>, <<"global", "limiter">>})
  /\ [][\A w \in 1..NumFetchers :
         (fetches[w].pc # "idle" /\ fetches'[w].attempts # fetches[w].attempts)
           => /\ fetches'[w].attempts = fetches[w].attempts + 1
              /\ fetches'[w].steps = <<"global">>]_vars

\* C13 witness: the second call for a URL has passed the global check and
\* the limiter and its network request is answered
C13_Witness ==
  \E w \in 1..NumFetchers :
    /\ fetches[w].attempts = FetchMaxRetries
    /\ fetches[w].steps = <<"global", "limiter", "network">>
    /\ fetches[w].outcome = "returned"

\* the invocations whose loop ended because retries reached maxRetries
ExhaustedSearches ==
  { s \in 1..NumSearchers : /\ searches[s].outcome = "threw"
                            /\ searches[s].retries = SearchMaxRetries }
ExhaustedFetches ==
  { w \in 1..NumFetchers : /\ fetches[w].outcome = "threw"
                           /\ fetches[w].retries = FetchMaxRetries }

\* C14 (as claimed): a wrapper that has used up its attempts fails with the
\* last error thrown by the operation it wraps.
C14_FailsWithLastError ==
  /\ \A s \in ExhaustedSearches : searches[s].thrown = searches[s].lastError
  /\ \A w \in ExhaustedFetches : fetches[w].thrown = fetches[w].lastError

\* C14 (amended): a wrapper that has used up its attempts fails with a new
\* error, whose message says that the operation failed after maxRetries
\* retries and which is not the last error thrown by the wrapped operation.
C14_FailsWithSummaryError ==
  /\ \A s \in ExhaustedSearches :
       /\ searches[s].thrown = SearchFailedMsg
       /\ searches[s].lastError \in SearchRateLimitErrors
       /\ searches[s].thrown # searches[s].lastError
  /\ \A w \in ExhaustedFetches :
       /\ fetches[w].thrown = JinaFailedMsg
       /\ fetches[w].lastError \in {GlobalJinaMsg, JinaLimitMsg}
       /\ fetches[w].thrown # fetches[w].lastError

\* C14 witness: a search and a content fetch have both used up their
\* attempts, each after a refusal of its limiter
C14_Witness ==
  /\ \E s \in ExhaustedSearches : searches[s].lastError = SearchLimitMsg
  /\ \E w \in ExhaustedFetches : fetches[w].lastError = JinaLimitMsg

\* C15: a content fetch that fails for a URL aborts neither the batch nor
\* the branch: whatever fetches fail, the branch goes on to summarize; the
\* pages it summarizes are those whose fetch succeeded, without a
\* placeholder for the others; and the URLs the branch adds to visitedUrls
\* are exactly the URLs of those pages.
C15_FailedFetchIsDropped ==
  /\ [](\A b \in DOMAIN branches :
         branches[b].ph = "summarizing" =>
           /\ Len(branches[b].urls)
                = Len(branches[b].found) - Cardinality(branches[b].dropped)
           /\ \A i \in 1..Len(branches[b].found) :
                i \in branches[b].dropped
                  <=> branches[b].found[i] \notin Range(branches[b].urls))
  /\ [][\A b \in DOMAIN branches :
         /\ (branches[b].ph = "fetching" /\ branches'[b].ph # "fetching")
              => branches'[b].ph = "summarizing"
         /\ (branches[b].ph = "summarizing" /\ b \in DOMAIN calls')
              => calls'[b].visitedUrls
                   = calls[Parent(b)].visitedUrls \o branches[b].urls
         /\ (branches[b].ph = "summarizing" /\ b \in DOMAIN branches'
               /\ branches'[b].via = "leaf")
              => branches'[b].res.visitedUrls
                   = calls[Parent(b)].visitedUrls \o branches[b].urls]_vars

\* C15 witness: a leaf branch has returned the URL of the one page of its
\* batch whose fetch succeeded, after the fetch of another page failed
C15_Witness ==
  \E b \in DOMAIN branches :
    /\ branches[b].via = "leaf"
    /\ Len(branches[b].res.visitedUrls) = 1
    /\ branches[b].res.learnings # <<>>

\* C16: generateSerpQueries returns at most numQueries queries, no two of
\* them with the same text, whenever the answer holds a queries array; when
\* it holds none the function fails, after one call of the language model.
\* (Stated as claimed; the code violates it.)
C16_AtMostNumQueriesAllDistinct ==
  generation.pc = "done" =>
    /\ generation.llmCalls = 1
    /\ IF generation.response.kind = "object"
          /\ IsArray(generation.response.queries)
       THEN /\ generation.outcome = "returned"
            /\ Len(generation.value) <= generation.numQueries
            /\ NoDuplicates(generation.value)
       ELSE generation.outcome = "threw"

IsPrefix(s, t) == Len(s) <= Len(t) /\ \A i \in 1..Len(s) : s[i] = t[i]

\* C17: processSerpResult returns a prefix of at most numLearnings items of
\* the learnings array and a prefix of at most numFollowUpQuestions items of
\* the followUpQuestions array of the answer; when one of the two is
\* missing or is not an array it throws, and the branch fails: its catch
\* block returns the error and no learning.
C17_TruncatesOrFails ==
  (summarization.pc = "done" /\ summarization.response.kind = "object") =>
    IF /\ summarization.response.learnings.is = "array"
       /\ summarization.response.followUpQuestions.is = "array"
    THEN /\ summarization.outcome = "returned"
         /\ Len(summarization.value.learnings) <= summarization.numLearnings
         /\ IsPrefix(summarization.value.learnings,
                     summarization.response.learnings.items)
         /\ Len(summarization.value.followUpQuestions)
              <= summarization.numFollowUpQuestions
         /\ IsPrefix(summarization.value.followUpQuestions,
                     summarization.response.followUpQuestions.items)
         /\ summarization.via = "leaf"
    ELSE /\ summarization.outcome = "threw"
         /\ summarization.via = "catch"
         /\ summarization.branch.learnings = <<>>
         /\ Len(summarization.branch.errors) = 1

\* C17 witness: both arrays of the answer were longer than allowed and
\* were cut
C17_Witness ==
  /\ summarization.pc = "done"
  /\ summarization.outcome = "returned"
  /\ Len(summarization.response.learnings.items) > summarization.numLearnings
  /\ Len(summarization.response.followUpQuestions.items)
       > summarization.numFollowUpQuestions
  /\ Len(summarization.value.learnings) = summarization.numLearnings
  /\ Len(summarization.value.followUpQuestions)
       = summarization.numFollowUpQuestions

\* C18: for breadth 4 and depth 2 the root call runs at most 4 branches;
\* every call made by a branch has breadth 2 and depth 1 and runs at most 2
\* branches; no call is made by a branch of such a call; and the
\* visitedUrls the root call returns are, without repetition, the URLs
\* accumulated by the leaf branches that completed.
C18_BreadthFourDepthTwo ==
  /\ \A c \in DOMAIN calls :
       /\ Len(c) <= 1
       /\ Cardinality(BranchesOf(branches, c)) = calls[c].n
       /\ Len(c) = 0 => (calls[c].breadth = 4 /\ calls[c].depth = 2
                           /\ calls[c].n <= 4)
       /\ Len(c) = 1 => (calls[c].breadth = 2 /\ calls[c].depth = 1
                           /\ calls[c].n <= 2)
  /\ \A b \in DOMAIN branches : Len(b) <= 2
  /\ RootReturned =>
       /\ NoDuplicates(RootCall.result.visitedUrls)
       /\ Range(RootCall.result.visitedUrls) = RootCall.result.leafUrls

\* C18 witness: the root call has returned the URLs of its four branches,
\* each of which made a call
C18_Witness ==
  /\ RootReturned
  /\ RootCall.n = 4
  /\ \A b \in BranchesOf(branches, <<>>) : branches[b].via = "call"
  /\ Cardinality(RootCall.result.leafUrls) >= 4

\* The sets of learnings and URLs that the answers o give to a call and to
\* a branch, the branches of a call being taken one after the other and
\* each nested call being completed before the next branch is taken.
RECURSIVE SequentialCall(_, _, _, _, _, _)
RECURSIVE SequentialBranch(_, _, _, _, _, _)
SequentialCall(o, c, breadth, depth, learnings, visitedUrls) ==
  LET n == IF o.queries[c] < breadth THEN o.queries[c] ELSE breadth
      R == [i \in 1..n |-> SequentialBranch(o, Append(c, i), breadth, depth,
                                            learnings, visitedUrls)]
  IN [learnings |-> UNION { R[i].learnings : i \in 1..n },
      visitedUrls |-> UNION { R[i].visitedUrls : i \in 1..n }]

SequentialBranch(o, b, breadth, depth, learnings, visitedUrls) ==
  IF ~o.search[b].ok \/ ~o.summary[b].ok
  THEN [learnings |-> {}, visitedUrls |-> {}]
  ELSE LET urls == { o.search[b].results[i] :
                       i \in o.fetch[b] \cap (1..MaxSerpResults) }
           new == { o.summary[b].learnings[i] :
                      i \in (1..DefaultNumLearnings)
                              \cap DOMAIN o.summary[b].learnings }
       IN IF depth - 1 > 0
          THEN SequentialCall(o, b, (breadth + 1) \div 2, depth - 1,
                              learnings \cup new, visitedUrls \cup urls)
          ELSE [learnings |-> learnings \cup new,
                visitedUrls |-> visitedUrls \cup urls]

\* C19: the answers given to every call and branch being what they are, the
\* sets of learnings and of visitedUrls that deepResearch returns are those
\* of the sequential evaluation of these answers, in whatever order the
\* branches were interleaved and ended.
C19_OrderIndependent ==
  (outcomes.recording /\ RootReturned) =>
    LET expected == SequentialCall(outcomes, <<>>, request.searchBreadth,
                                   request.searchDepth, {}, {})
    IN /\ Range(RootCall.result.learnings) = expected.learnings
       /\ Range(RootCall.result.visitedUrls) = expected.visitedUrls

\* C19 witness: the root call has returned learnings, and of two branches
\* of one call the later one ended first
C19_Witness ==
  /\ outcomes.recording
  /\ RootReturned
  /\ RootCall.result.learnings # <<>>
  /\ outcomes.overtaken

\* Steps that the activation chain of retryJsonParse can still take.
ParseStepsLeft ==
  CASE parsing.pc = "parse" -> 2 * (MAX_RETRIES - parsing.retryCount) + 2
    [] parsing.pc = "delay" -> 2 * (MAX_RETRIES - parsing.retryCount) + 1
    [] OTHER -> 0

\* C20: retryJsonParse parses the text it is given first, so that a valid
\* JSON text is returned by the first attempt, unrepaired; otherwise every
\* repair is followed by one parse attempt, there are at most MAX_RETRIES
\* repairs, and then it fails: every step lowers the number of steps left,
\* whatever the text.
C20_DirectParseThenBoundedRepairs ==
  /\ [](parsing.repairs <= MAX_RETRIES /\ parsing.attempts <= MAX_RETRIES + 1)
  /\ [](parsing.pc = "parse" => parsing.attempts = parsing.repairs)
  /\ [](parsing.pc \in {"delay", "done"} =>
          parsing.attempts = parsing.repairs + 1)
  /\ []((parsing.pc = "done" /\ JsonValid(parsing.original)) =>
          /\ parsing.outcome = "returned"
          /\ parsing.attempts = 1
          /\ parsing.repairs = 0
          /\ parsing.value = parsing.original)
  /\ []((parsing.pc = "done" /\ parsing.outcome = "threw") =>
          (parsing.repairs = MAX_RETRIES /\ ~JsonValid(parsing.jsonMatch)))
  /\ [](ParseStepsLeft >= 0)
  /\ [][parsing.pc # "idle" => ParseStepsLeft' < ParseStepsLeft]_vars

\* C20 witness: a text without any brace or bracket has failed after the
\* direct parse and MAX_RETRIES repairs, each followed by a parse
C20_Witness ==
  /\ parsing.pc = "done"
  /\ parsing.outcome = "threw"
  /\ parsing.original # <<>>
  /\ Range(parsing.original) \cap {"{", "}", "[", "]"} = {}
  /\ parsing.repairs = MAX_RETRIES
  /\ parsing.attempts = MAX_RETRIES + 1

\* two texts that JSON.parse turns into the same value: both are valid and
\* they differ only by whitespace, which a valid text holds between tokens
SameJson(a, b) ==
  /\ JsonValid(a)
  /\ JsonValid(b)
  /\ SelectSeq(a, LAMBDA ch : ch # Newline)
       = SelectSeq(b, LAMBDA ch : ch # Newline)

\* C21: the text of an object damaged by one unescaped quote and raw
\* newlines in its string value and by a trailing comma is recovered by
\* retryJsonParse, within MAX_RETRIES repairs, to the object that its
\* correctly written text parses to. (Stated as claimed; the code violates
\* it.)
C21_DamagedObjectRecovered ==
  \A p \in StringContents :
    (parsing.pc = "done" /\ parsing.original = ObjectText(p, TRUE)) =>
      /\ parsing.outcome = "returned"
      /\ parsing.repairs <= MAX_RETRIES
      /\ SameJson(parsing.value, ObjectText(p, FALSE))

\* the calls made by a branch, the call that runs the branch being live
NestedCalls == { c \in DOMAIN calls : Len(c) > 0 /\ Parent(c) \in DOMAIN calls }

\* C22 (as claimed): on every recursive call the breadth of the child is
\* strictly smaller than the breadth of the parent and its depth is the
\* depth of the parent minus 1.
C22_BothStrictlyDecrease ==
  \A c \in NestedCalls :
    /\ calls[c].breadth < calls[Parent(c)].breadth
    /\ calls[c].depth = calls[Parent(c)].depth - 1

\* C22 (amended): on every recursive call the depth of the child is the
\* depth of the parent minus 1 and is at least 1; the breadth of the child
\* is at least 1 and never larger than the breadth of the parent, and it is
\* strictly smaller exactly when the breadth of the parent is at least 2.
C22_DepthDecreasesBreadthNeverGrows ==
  \A c \in NestedCalls :
    /\ calls[c].depth = calls[Parent(c)].depth - 1
    /\ calls[c].depth >= 1
    /\ calls[c].breadth >= 1
    /\ calls[c].breadth <= calls[Parent(c)].breadth
    /\ calls[c].breadth < calls[Parent(c)].breadth
         <=> calls[Parent(c)].breadth >= 2

\* C22 witness: a call of breadth 1 made by a branch of a call of breadth 1
\* runs its branch, and the depth went from 3 to 2
C22_Witness ==
  \E c \in NestedCalls :
    /\ calls[c].st = "running"
    /\ calls[c].breadth = 1
    /\ calls[Parent(c)].breadth = 1
    /\ calls[Parent(c)].depth = 3
    /\ calls[c].depth = 2

\* the least k such that 2^k >= b
CeilLog2(b) == CHOOSE k \in 0..b : 2^k >= b /\ \A j \in 0..(k - 1) : 2^j < b

\* C23: the breadth of a call made by a branch is the half of the breadth
\* of its parent, rounded up; along a chain of nested calls the breadth
\* never grows, is larger than 1 before ceil(log2(b)) recursive steps have
\* been made from the breadth b of the request, and is 1 from then on.
C23_BreadthHalvesDownToOne ==
  /\ \A c \in NestedCalls :
       /\ 2 * calls[c].breadth \in { calls[Parent(c)].breadth,
                                     calls[Parent(c)].breadth + 1 }
       /\ calls[c].breadth <= calls[Parent(c)].breadth
  /\ \A c \in DOMAIN calls :
       IF Len(c) < CeilLog2(request.searchBreadth)
       THEN calls[c].breadth > 1
       ELSE calls[c].breadth = 1

\* C23 witness: for a request of breadth 3 or more, a call one level below
\* the level where the breadth reached 1 runs with breadth 1
C23_Witness ==
  \E c \in NestedCalls :
    /\ request.searchBreadth >= 3
    /\ Len(c) = CeilLog2(request.searchBreadth) + 1
    /\ calls[c].breadth = 1
    /\ calls[Parent(c)].breadth = 1
    /\ calls[c].st = "running"

\* the learnings that the summarization of branch b returned in the step
\* just taken, cut to numLearnings
OwnLearnings(b) ==
  LET ls == outcomes'.summary[b].learnings
  IN SubSeq(ls, 1, Min(DefaultNumLearnings, Len(ls)))

\* the summarization of branch b returned in the step just taken
SummaryReturned(b) ==
  /\ b \notin DOMAIN outcomes.summary
  /\ b \in DOMAIN outcomes'.summary
  /\ outcomes'.summary[b].ok

\* C24: a branch whose summarization returned while newDepth > 0 calls
\* deepResearch with the breadth ceil(breadth / 2), the depth depth - 1, and
\* the learnings and visitedUrls of its call followed by its own learnings
\* and the URLs of the pages it fetched; and when that call returns, what
\* the branch returns is the result of the call: the learnings and URLs
\* that the answers given below the branch yield from those arguments.
C24_RecursesWithAccumulated ==
  [][\A b \in DOMAIN branches :
       /\ (branches[b].ph = "summarizing" /\ SummaryReturned(b)
             /\ calls[Parent(b)].depth - 1 > 0)
            => /\ b \in DOMAIN calls'
               /\ b \in DOMAIN branches'
               /\ branches'[b].ph = "recursing"
               /\ calls'[b].st = "generating"
               /\ 2 * calls'[b].breadth \in { calls[Parent(b)].breadth,
                                              calls[Parent(b)].breadth + 1 }
               /\ calls'[b].depth = calls[Parent(b)].depth - 1
               /\ calls'[b].learnings
                    = calls[Parent(b)].learnings \o OwnLearnings(b)
               /\ calls'[b].visitedUrls
                    = calls[Parent(b)].visitedUrls \o branches[b].urls
       /\ (b \notin DOMAIN calls /\ b \in DOMAIN calls')
            => (branches[b].ph = "summarizing" /\ SummaryReturned(b)
                  /\ calls[Parent(b)].depth - 1 > 0)
       /\ (branches[b].ph = "recursing" /\ b \in DOMAIN branches'
             /\ branches'[b].ph = "done")
            => LET expected ==
                     SequentialCall(outcomes', b, calls[b].breadth,
                                    calls[b].depth, Range(calls[b].learnings),
                                    Range(calls[b].visitedUrls))
               IN /\ branches'[b].via = "call"
                  /\ Range(branches'[b].res.learnings) = expected.learnings
                  /\ Range(branches'[b].res.visitedUrls)
                       = expected.visitedUrls]_vars

\* C24 witness: a branch of a nested call has returned the result of the
\* call it made with the learnings accumulated above it and its own
C24_Witness ==
  \E b \in DOMAIN branches :
    /\ Len(b) >= 2
    /\ branches[b].via = "call"
    /\ calls[Parent(b)].learnings # <<>>
    /\ Len(branches[b].res.learnings) >= 3
    /\ Len(branches[b].res.visitedUrls) >= 3

\* C25: a branch whose summarization returned while newDepth <= 0 makes no
\* call of deepResearch and returns the learnings and visitedUrls of its
\* call followed by its own learnings and the URLs of the pages it fetched,
\* with an empty list of errors; no call has a depth of 0 or less except
\* the call of a request that asks for it.
C25_LeafReturnsAccumulated ==
  /\ [](\A c \in DOMAIN calls : Len(c) > 0 => calls[c].depth > 0)
  /\ [][\A b \in DOMAIN branches :
         (branches[b].ph = "summarizing" /\ calls[Parent(b)].depth - 1 <= 0)
           => /\ b \notin DOMAIN calls'
              /\ (SummaryReturned(b) /\ b \in DOMAIN branches')
                   => /\ branches'[b].ph = "done"
                      /\ branches'[b].via = "leaf"
                      /\ branches'[b].res.learnings
                           = calls[Parent(b)].learnings \o OwnLearnings(b)
                      /\ branches'[b].res.visitedUrls
                           = calls[Parent(b)].visitedUrls \o branches[b].urls
                      /\ branches'[b].res.errors = <<>>]_vars

\* C25 witness: a branch of a nested call of depth 1 has returned, by its
\* leaf return statement, the learnings accumulated above it and its own
C25_Witness ==
  \E b \in DOMAIN branches :
    /\ Len(b) >= 2
    /\ calls[Parent(b)].depth = 1
    /\ calls[Parent(b)].learnings # <<>>
    /\ branches[b].via = "leaf"
    /\ Len(branches[b].res.learnings) > Len(calls[Parent(b)].learnings)
    /\ branches[b].res.errors = <<>>

\* C26: within one branch no content fetch is started before the search
\* has returned; the summarization starts only when every content fetch
\* of the batch has settled, with a page or with a failure; and the call
\* of deepResearch is made only when the summarization has returned.
C26_PhasesInOrder ==
  /\ [](pipeline.pc \in {"idle", "searching"} => pipeline.started = <<>>)
  /\ [](pipeline.pc = "fetching" => pipeline.pending # {})
  /\ [](pipeline.pc \in {"summarizing", "recursing"} =>
          /\ pipeline.pending = {}
          /\ Len(pipeline.newUrls) = Cardinality(pipeline.fetched))
  /\ [][/\ pipeline'.started # pipeline.started => pipeline.pc = "searching"
        /\ (pipeline'.pc = "fetching" /\ pipeline.pc # "fetching")
             => pipeline.pc = "searching"
        /\ (pipeline'.pc = "summarizing" /\ pipeline.pc # "summarizing")
             => /\ pipeline.pc \in {"searching", "fetching"}
                /\ pipeline.pc = "searching" => pipeline'.started = <<>>
                /\ pipeline.pc = "fetching" =>
                     Cardinality(pipeline.pending) = 1
        /\ (pipeline'.pc = "recursing" /\ pipeline.pc # "recursing")
             => pipeline.pc = "summarizing"]_vars

\* C26 witness: the call of deepResearch is made after a batch of 5
\* fetches of which some failed and some gave a page
C26_Witness ==
  /\ pipeline.pc = "recursing"
  /\ Len(pipeline.started) = MaxSerpResults
  /\ pipeline.fetched # {}
  /\ Cardinality(pipeline.fetched) < MaxSerpResults

\* C29: a branch calls fetchJinaContentWithRetry for the first 5 results of
\* its search, in their order, and for no other: at most 5 calls, and at
\* most 5 URLs, all among those 5, are added to visitedUrls.
C29_FetchesFirstFiveResults ==
  /\ Len(pipeline.started) <= 5
  /\ IsPrefix(pipeline.started, pipeline.results)
  /\ pipeline.pc \notin {"idle", "searching"} =>
       (Len(pipeline.started) = 5 \/ pipeline.started = pipeline.results)
  /\ Len(pipeline.newUrls) <= 5
  /\ Range(pipeline.newUrls) \subseteq Range(pipeline.started)
  /\ (pipeline.pc = "recursing" \/ pipeline.via \in {"leaf", "call"}) =>
       /\ IsPrefix(pipeline.visitedUrls, pipeline.allUrls)
       /\ Len(pipeline.allUrls) = Len(pipeline.visitedUrls)
                                    + Len(pipeline.newUrls)
       /\ Range(pipeline.allUrls) \subseteq
            Range(pipeline.visitedUrls) \cup Range(pipeline.started)

\* C29 witness: the search returned more than 5 results and the branch
\* returned 5 URLs after those of its call, every fetch having given a page
C29_Witness ==
  /\ Len(pipeline.results) > 5
  /\ pipeline.via = "leaf"
  /\ pipeline.visitedUrls # <<>>
  /\ Len(pipeline.allUrls) = Len(pipeline.visitedUrls) + 5

OwnLearningsOf(b) ==
  LET ls == outcomes.summary[b].learnings
  IN SubSeq(ls, 1, Min(DefaultNumLearnings, Len(ls)))

OwnUrlsOf(b) ==
  LET r == outcomes.search[b].results
      kept == SelectSeq([i \in 1..Min(MaxSerpResults, Len(r)) |-> i],
                        LAMBDA i : i \in outcomes.fetch[b])
  IN [i \in 1..Len(kept) |-> r[kept[i]]]

\* C30: the learnings and visitedUrls passed into a call of deepResearch
\* stay what they were as long as the call lives; what a branch returns by
\* its leaf return statement, and what it passes to the call it makes, are
\* the lists passed into its own call followed by what its own answers
\* add, whatever the other branches of the call have done meanwhile.
C30_InputsNeverMutated ==
  /\ [][\A c \in DOMAIN calls \cap DOMAIN calls' :
         /\ calls'[c].learnings = calls[c].learnings
         /\ calls'[c].visitedUrls = calls[c].visitedUrls]_vars
  /\ [](outcomes.recording =>
          /\ \A b \in DOMAIN branches :
               branches[b].via = "leaf" =>
                 /\ branches[b].res.learnings
                      = calls[Parent(b)].learnings \o OwnLearningsOf(b)
                 /\ branches[b].res.visitedUrls
                      = calls[Parent(b)].visitedUrls \o OwnUrlsOf(b)
          /\ \A c \in NestedCalls :
               /\ calls[c].learnings
                    = calls[Parent(c)].learnings \o OwnLearningsOf(c)
               /\ calls[c].visitedUrls
                    = calls[Parent(c)].visitedUrls \o OwnUrlsOf(c))

\* C30 witness: of two branches of a nested call that was passed learnings
\* and URLs, the second has returned the lists of the call followed by its
\* own while the first is still summarizing
C30_Witness ==
  /\ outcomes.recording
  /\ outcomes.overtaken
  /\ \E c \in NestedCalls :
       /\ calls[c].learnings # <<>>
       /\ calls[c].visitedUrls # <<>>
       /\ calls[c].n >= 2
       /\ branches[Append(c, 2)].via = "leaf"
       /\ branches[Append(c, 2)].res.learnings # calls[c].learnings
       /\ branches[Append(c, 1)].ph = "summarizing"

\* The branches that the recorded answers show to have completed by their
\* leaf return statement: search and summarization returned, newDepth <= 0.
CompletedLeaves ==
  { b \in DOMAIN outcomes.summary :
      /\ outcomes.summary[b].ok
      /\ request.searchDepth - Len(b) <= 0 }

\* The learnings summarized on the path from the root to branch b, each
\* summarization being cut to numLearnings.
PathLearnings(b) ==
  UNION { { outcomes.summary[SubSeq(b, 1, k)].learnings[i] :
              i \in (1..DefaultNumLearnings)
                      \cap DOMAIN outcomes.summary[SubSeq(b, 1, k)].learnings }
          : k \in 1..Len(b) }

\* C31: the learnings that deepResearch returns are exactly those
\* accumulated on the paths from the root to the leaf branches that
\* completed without error; what a non-leaf branch summarized is in the
\* result only through a leaf below it, so it is absent when the call
\* under it generates no query or every branch under it fails.
C31_LearningsComeFromLeaves ==
  (outcomes.recording /\ RootReturned) =>
    Range(RootCall.result.learnings)
      = UNION { PathLearnings(b) : b \in CompletedLeaves }

\* C31 witness: the root call has returned without the learning that its
\* branch 1 summarized, the call made by that branch having generated no
\* query, while a leaf under another branch contributed its path
C31_Witness ==
  /\ outcomes.recording
  /\ RootReturned
  /\ <<1>> \in DOMAIN outcomes.summary
  /\ outcomes.summary[<<1>>].ok
  /\ outcomes.summary[<<1>>].learnings = <<1>>
  /\ <<1>> \in DOMAIN outcomes.queries
  /\ outcomes.queries[<<1>>] = 0
  /\ 1 \notin Range(RootCall.result.learnings)
  /\ \E b \in CompletedLeaves : Len(b) >= 2
  /\ RootCall.result.learnings # <<>>

\* A request of depth 2 or 3 whose branches are run one at a time.
GateInit ==
  /\ ConcurrencyLimit = 1
  /\ rateLimitsEnabled = TRUE
  /\ request \in [hasQuery : BOOLEAN, searchBreadth : 2..MaxBreadth,
                  searchDepth : 2..(MaxDepth + 1)]
  /\ post = [pc |-> "start", status |-> 0, learnings |-> <<>>,
             visitedUrls |-> <<>>, body |-> EmptyResult, learned |-> FALSE]
  /\ calls = << >>
  /\ branches = << >>
  /\ learned = FALSE
  /\ deviations = 0
  /\ outcomes = NoOutcomes(FALSE)
  /\ totalJinaRequests = 0
  /\ fetches = [w \in 1..NumFetchers |-> IdleFetch]
  /\ passedSinceReset = 0
  /\ searches = [s \in 1..NumSearchers |-> IdleSearch]
  /\ pipeline = IdlePipeline
  /\ general = IdleGeneral
  /\ report = IdleReport
  /\ home = InitialHome
  /\ generation = IdleGeneration
  /\ summarization = IdleSummarization
  /\ parsing = IdleParsing

\* A step of the request is ready to run: the handler has not started or
\* can answer, a query generation awaits the language model, or a branch
\* awaits its search, its content fetches or its summarization.
StepPending ==
  \/ post.pc = "start"
  \/ post.pc = "research" /\ calls[<<>>].st \in {"resolved", "rejected"}
  \/ \E c \in DOMAIN calls : calls[c].st = "generating"
  \/ \E b \in DOMAIN branches : branches[b].ph \in NetworkPhase

\* Every pending step is eventually taken: the language model, the search
\* and the content fetches eventually answer or fail, and the handler and
\* the continuations are run by the event loop (weak fairness of Next,
\* StepPending being its enabling condition).
EventLoopRuns == []<>(~StepPending) \/ []<><<Next>>_vars

GateSpec == GateInit /\ [][Next]_vars /\ EventLoopRuns

\* The paths of the branches that can wait at a gate.
GatePaths ==
  { b \in UNION { [1..k -> 1..MaxBreadth] : k \in 1..(MaxDepth + 1) } :
      Last(b) > 1 }

\* The branches of call c that hold a slot of its gate: started, not ended.
SlotHolders(c) ==
  { b \in DOMAIN branches :
      /\ Len(b) > 0
      /\ SubSeq(b, 1, Len(b) - 1) = c
      /\ branches[b].ph \notin {"queued", "done", "rejected"} }

\* C32: the gates never deadlock. No gate admits more branches than its
\* limit; a branch keeps its slot while the call it made runs, no branch
\* waiting at the same gate being admitted meanwhile, and that call has a
\* gate of its own; every branch that waits at a gate is eventually
\* admitted; and the root call eventually returns or throws.
C32_GatesNeverDeadlock ==
  /\ [](\A c \in DOMAIN calls :
          Cardinality(SlotHolders(c)) <= ConcurrencyLimit)
  /\ [](\A b \in DOMAIN branches :
          branches[b].ph = "recursing"
            => /\ b \in SlotHolders(SubSeq(b, 1, Len(b) - 1))
               /\ b \in DOMAIN calls
               /\ calls[b].st = "running" => SlotHolders(b) # {})
  /\ [][\A b \in DOMAIN branches :
          (/\ branches[b].ph = "recursing"
           /\ b \in DOMAIN branches'
           /\ branches'[b].ph = "recursing"
           /\ Cardinality(SlotHolders(SubSeq(b, 1, Len(b) - 1)))
                = ConcurrencyLimit)
            => \A x \in DOMAIN branches :
                 (/\ Len(x) = Len(b)
                  /\ SubSeq(x, 1, Len(x) - 1) = SubSeq(b, 1, Len(b) - 1)
                  /\ branches[x].ph = "queued")
                   => branches'[x].ph = "queued"]_vars
  /\ \A b \in GatePaths :
       (b \in DOMAIN branches /\ branches[b].ph = "queued")
         ~> (b \in DOMAIN branches /\ branches[b].ph = "searching")
  /\ (<<>> \in DOMAIN calls) ~> (RootReturned \/ RootThrew)

\* C32 witness: the only slot of the root gate is held by a branch whose
\* recursive call runs a branch of its own while another waits at the gate
\* of that call, and a branch waits at the root gate
C32_Witness ==
  /\ ConcurrencyLimit = 1
  /\ request.searchDepth >= 2
  /\ \E b \in DOMAIN branches :
       /\ Len(b) = 1
       /\ branches[b].ph = "recursing"
       /\ calls[b].st = "running"
       /\ \E x \in DOMAIN branches :
            Len(x) = 1 /\ branches[x].ph = "queued"
       /\ \E y \in DOMAIN branches :
            /\ Len(y) = 2
            /\ SubSeq(y, 1, 1) = b
            /\ branches[y].ph = "queued"

\* The invocations of fetchJinaContentWithRetry that call fetchJinaContent
\* in the step being taken, and those among them that get past the global
\* check (they go on to the limiter or to the request).
FetchCalledNow ==
  { w \in 1..NumFetchers :
      /\ fetches[w].pc \in {"delay", "backoff"}
      /\ fetches'[w].attempts = fetches[w].attempts + 1 }
FetchPassedNow ==
  { w \in FetchCalledNow : fetches'[w].pc \in {"limiter", "network"} }

\* C33: every call of fetchJinaContent that gets past the global check
\* raises totalJinaRequests by exactly one in the very step that checks it,
\* on a first attempt or on a retry, with rate limiting enabled or not; a
\* call refused by the global check leaves the counter alone; a refusal by
\* the per-key limiter and an answer or failure of the network leave it
\* alone as well (nothing is given back); and the counter is lowered only
\* by the reset, to 0.
C33_PassedCheckCountsOnce ==
  [][/\ Cardinality(FetchCalledNow) <= 1
     /\ \A w \in FetchPassedNow :
          /\ totalJinaRequests < ContentFetchLimit
          /\ totalJinaRequests' = totalJinaRequests + 1
          /\ fetches'[w].pc = (IF rateLimitsEnabled THEN "limiter"
                                                    ELSE "network")
     /\ \A w \in FetchCalledNow \ FetchPassedNow :
          /\ totalJinaRequests >= ContentFetchLimit
          /\ totalJinaRequests' = totalJinaRequests
          /\ fetches'[w].lastError = GlobalJinaMsg
     /\ (totalJinaRequests' > totalJinaRequests) => FetchPassedNow # {}
     /\ (\E w \in 1..NumFetchers :
           /\ fetches[w].pc \in {"limiter", "network"}
           /\ fetches'[w] # fetches[w])
          => totalJinaRequests' = totalJinaRequests
     /\ (totalJinaRequests' < totalJinaRequests)
          => (totalJinaRequests' = 0 /\ fetches' = fetches)]_vars

\* C33 witness: rate limiting being disabled, two invocations each had
\* their first request fail and are at the request of their retry; the
\* counter stands at 4, one unit for each of the four calls
C33_Witness ==
  /\ ~rateLimitsEnabled
  /\ totalJinaRequests = 2 * NumFetchers
  /\ \A w \in 1..NumFetchers :
       /\ fetches[w].pc = "network"
       /\ fetches[w].retries = 1
       /\ fetches[w].attempts = 2
       /\ fetches[w].lastError = JinaLimitMsg

\* C34: when deepResearch throws, the handler answers with status 500. Its
\* variables learnings and visitedUrls are empty as long as deepResearch
\* has not returned, so the catch block never takes the branch that
\* answers 200 with partial results, whatever was learned before the throw;
\* a 200 answer is given only after deepResearch returned.
C34_ThrowMeans500 ==
  /\ [](post.pc \in {"start", "research"}
          => (post.learnings = <<>> /\ post.visitedUrls = <<>>))
  /\ []((post.pc = "done" /\ RootThrew)
          => (/\ post.status = 500
              /\ post.learnings = <<>>
              /\ post.visitedUrls = <<>>))
  /\ []((post.pc = "done" /\ post.status = 200) => RootReturned)
  /\ [][(post.pc = "research" /\ RootThrew /\ post' # post)
          => (post'.pc = "done" /\ post'.status = 500)]_vars

\* C34 witness: the handler answered 500 after deepResearch threw, although
\* a branch had summarized learnings before the throw
C34_Witness ==
  /\ post.pc = "done"
  /\ post.status = 500
  /\ RootThrew
  /\ post.learned
  /\ Len(RootCall.origin) >= 1

\* C35: the response of a general search never holds two results with the
\* same URL and never more results than the count requested, whatever
\* pages the search provider returned. (Stated as claimed; the code
\* violates it when a page itself repeats a URL.)
C35_UniqueAndBounded ==
  (general.pc = "done" /\ general.status = 200)
    => /\ NoDuplicates(general.value)
       /\ Len(general.value) <= general.count

\* C36 as claimed: a request that omits platformModel is always answered
\* with 400. (The answer is 429 when rate limiting is enabled and the
\* limiter refuses the request, the limiter being asked first.)
C36_OmittedAlways400 ==
  (report.pc = "done" /\ ~report.given) => report.status = 400

\* C36: for a request that omits platformModel no model is ever called,
\* and the answer is never a report: it is 400 with the message that the
\* platform is not enabled, the default value having no separator so that
\* the whole of it is taken for the platform, or 429 given by the rate
\* limiter, which is asked first and only when rate limiting is enabled.
C36_OmittedNeverCallsModel ==
  ~report.given =>
    /\ ~report.modelCalled
    /\ report.pc \in {"idle", "received", "done"}
    /\ report.pc = "done" =>
         \/ report.status = 400 /\ report.error = "platform is not enabled"
         \/ report.status = 429 /\ rateLimitsEnabled
    /\ report.pc # "idle" =>
         /\ ItemAt(Split(report.platformModel), 0).value
              \notin {"google", "openai", "anthropic", "deepseek"}
         /\ ~ItemAt(Split(report.platformModel), 1).defined

\* C36 witness: a request without platformModel was answered with 400, the
\* platform not being enabled, rate limiting being enabled
C36_Witness ==
  /\ report.pc = "done"
  /\ ~report.given
  /\ rateLimitsEnabled
  /\ report.status = 400
  /\ report.error = "platform is not enabled"
  /\ ~report.modelCalled

\* C37: selectedResults never holds more than MAX_SELECTIONS ids, after
\* any sequence of result toggles, result removals and completed searches.
\* (Stated as claimed; the code violates it after a deep search.)
C37_SelectionCapped ==
  Cardinality(home.selectedResults) <= MAX_SELECTIONS

\* The effects have run.
EffectsHaveRun == home.changed = {}

\* C38: once the effects have run, whatever the clicks on the mode
\* controls were: searchType 'deep' implies searchMode 'auto',
\* documentType 'presentation' implies that searchType is not 'deep', and
\* searchDepth is 'custom' exactly when searchMode is 'manual'.
C38_OptionsConsistent ==
  EffectsHaveRun =>
    /\ home.searchType = "deep" => home.searchMode = "auto"
    /\ home.documentType = "presentation" => home.searchType # "deep"
    /\ home.searchDepth = "custom" <=> home.searchMode = "manual"

\* C38 witness: the effects have run after deep search was chosen in
\* manual mode (a search started in manual mode with the custom depth is
\* in progress and the options now say deep, auto, light)
C38_Witness ==
  /\ EffectsHaveRun
  /\ home.search.active
  /\ home.search.searchMode = "manual"
  /\ home.search.searchDepth = "custom"
  /\ home.search.searchType = "general"
  /\ home.searchType = "deep"
  /\ home.searchMode = "auto"
  /\ home.searchDepth = "light"

TypeOK ==
  /\ ConcurrencyLimit \in 1..MaxConcurrency
  /\ post.pc \in {"start", "research", "done"}
  /\ \A c \in DOMAIN calls :
       calls[c].st \in {"generating", "running", "resolved", "rejected"}
  /\ \A b \in DOMAIN branches :
       branches[b].ph \in {"queued"} \cup Running \cup Settled

====
